---- MODULE Spec2Model ----
(***************************************************************************)
(* Arka System Manager: the client-side state/update core.                 *)
(*                                                                         *)
(*   - Profile Registry   (activateProfile, saveUserSettings, loadSavedData)*)
(*   - Storage Adapter    (saveToStorage / loadFromStorage,                *)
(*                         Utils.setLocalStorage / Utils.getLocalStorage)  *)
(*   - Chat History Mgr   (chatHistoryManager.addEntry / clearHistory /    *)
(*                         getByCategory / searchHistory)                  *)
(*   - Metric Simulator, Template Engine, Operation Simulator, Alert       *)
(*     Evaluator, the AI assistant's exchanges (sendAIMessage) and the     *)
(*     async utilities (Utils.timeoutPromise, Utils.retryAsync)            *)
(*                                                                         *)
(* Text is modelled as a sequence of character codes (ASCII), so that the  *)
(* size test, the character-class test and the base64 / URI transforms of  *)
(* the storage adapter are computed, not assumed.  The envelope that       *)
(* localStorage holds is kept as the JSON document it denotes.             *)
(***************************************************************************)
EXTENDS Integers, Sequences, FiniteSets, TLC

(***************************************************************************)
(* Characters                                                              *)
(***************************************************************************)
QUOTE    == 34   \* "
PERCENT  == 37   \* %
PLUS     == 43   \* +
COMMA    == 44   \* ,
SLASH    == 47   \* /
COLON    == 58   \* :
EQUALS   == 61   \* =
LBRACKET == 91   \* [
BACKSL   == 92   \* \
RBRACKET == 93   \* ]
LBRACE   == 123  \* {
RBRACE   == 125  \* }

IsDigit(c) == c >= 48 /\ c <= 57
IsUpper(c) == c >= 65 /\ c <= 90
IsLower(c) == c >= 97 /\ c <= 122

\* The sequence f, held as a tuple (f is a function on 1..n).
Text(f) == f \o << >>

\* n copies of the character c
Rep(c, n) == Text([i \in 1..n |-> c])

\* Concatenation of the texts parts[lo..hi], by halving (the depth of the
\* evaluation is logarithmic in the number of parts).
RECURSIVE Flatten(_, _, _)
Flatten(parts, lo, hi) ==
    IF lo > hi THEN << >>
    ELSE IF lo = hi THEN parts[lo]
    ELSE LET mid == (lo + hi) \div 2
         IN  Flatten(parts, lo, mid) \o Flatten(parts, mid + 1, hi)

\* Index of the first occurrence of c in s at or after position p, 0 if none.
FirstIdx(s, p, c) ==
    IF \E i \in p..Len(s) : s[i] = c
    THEN CHOOSE i \in p..Len(s) : s[i] = c /\ \A j \in p..(i - 1) : s[j] # c
    ELSE 0

(***************************************************************************)
(* btoa / atob: base64 over the alphabet A-Z a-z 0-9 + / with = padding    *)
(***************************************************************************)
B64Char(v) ==
    IF v < 26 THEN 65 + v
    ELSE IF v < 52 THEN 97 + (v - 26)
    ELSE IF v < 62 THEN 48 + (v - 52)
    ELSE IF v = 62 THEN PLUS
    ELSE SLASH

IsB64Alpha(c) == IsUpper(c) \/ IsLower(c) \/ IsDigit(c) \/ c = PLUS \/ c = SLASH

B64Val(c) ==
    IF IsUpper(c) THEN c - 65
    ELSE IF IsLower(c) THEN c - 97 + 26
    ELSE IF IsDigit(c) THEN c - 48 + 52
    ELSE IF c = PLUS THEN 62
    ELSE 63

Pow64(k) == IF k = 0 THEN 1 ELSE IF k = 1 THEN 64 ELSE IF k = 2 THEN 4096 ELSE 262144
Pow256(k) == IF k = 0 THEN 1 ELSE IF k = 1 THEN 256 ELSE 65536

\* btoa(s) for s of character codes 0..255: three bytes become four
\* characters, a last group of one or two bytes is padded with "=".
Btoa(s) ==
    LET n == Len(s)
        m == 4 * ((n + 2) \div 3)
        Byte(i) == IF i <= n THEN s[i] ELSE 0
        Out(j) ==
            LET g == (j - 1) \div 4
                k == (j - 1) % 4
                r == n - 3 * g
                t == Byte(3 * g + 1) * 65536 + Byte(3 * g + 2) * 256 + Byte(3 * g + 3)
            IN  IF k > r THEN EQUALS ELSE B64Char((t \div Pow64(3 - k)) % 64)
    IN  Text([j \in 1..m |-> Out(j)])

\* atob(s), the forgiving base64 decode: one or two trailing "=" are dropped
\* when the length is a multiple of 4; a remaining length of 1 modulo 4 or a
\* character outside the alphabet is an InvalidCharacterError.
Atob(s) ==
    LET n0 == Len(s)
        pad == IF n0 % 4 = 0 /\ n0 > 0 /\ s[n0] = EQUALS
               THEN (IF s[n0 - 1] = EQUALS THEN 2 ELSE 1)
               ELSE 0
        n == n0 - pad
        Sext(i) == IF i <= n THEN B64Val(s[i]) ELSE 0
        Out(i) ==
            LET g == (i - 1) \div 3
                k == (i - 1) % 3
                t == Sext(4 * g + 1) * 262144 + Sext(4 * g + 2) * 4096
                     + Sext(4 * g + 3) * 64 + Sext(4 * g + 4)
            IN  (t \div Pow256(2 - k)) % 256
    IN  IF n % 4 = 1 \/ \E i \in 1..n : ~IsB64Alpha(s[i])
        THEN [ok |-> FALSE, text |-> << >>]
        ELSE [ok |-> TRUE, text |-> Text([i \in 1..((n * 3) \div 4) |-> Out(i)])]

(***************************************************************************)
(* encodeURIComponent / decodeURIComponent over ASCII                      *)
(***************************************************************************)
\* A-Z a-z 0-9 - _ . ! ~ * ' ( ) are left alone
IsUnreserved(c) ==
    IsUpper(c) \/ IsLower(c) \/ IsDigit(c)
    \/ c \in {45, 95, 46, 33, 126, 42, 39, 40, 41}

HexChar(v) == IF v < 10 THEN 48 + v ELSE 65 + (v - 10)
IsHex(c) == IsDigit(c) \/ (c >= 65 /\ c <= 70) \/ (c >= 97 /\ c <= 102)
HexVal(c) == IF IsDigit(c) THEN c - 48 ELSE IF c >= 97 THEN c - 97 + 10 ELSE c - 65 + 10

EncodeURIComponent(s) ==
    LET Piece(i) == IF IsUnreserved(s[i]) THEN << s[i] >>
                    ELSE << PERCENT, HexChar(s[i] \div 16), HexChar(s[i] % 16) >>
    IN  Flatten([i \in 1..Len(s) |-> Piece(i)], 1, Len(s))

\* Every "%" must start an escape %XX; an escape of a byte >= 0x80 is outside
\* the modelled alphabet and is reported as a URIError like a malformed one.
DecodeURIComponent(s) ==
    LET n == Len(s)
        EscOk(i) == i + 2 <= n /\ IsHex(s[i + 1]) /\ IsHex(s[i + 2])
                    /\ 16 * HexVal(s[i + 1]) + HexVal(s[i + 2]) < 128
        IsTail(i) == (i >= 2 /\ s[i - 1] = PERCENT) \/ (i >= 3 /\ s[i - 2] = PERCENT)
        Piece(i) == IF s[i] = PERCENT
                    THEN << 16 * HexVal(s[i + 1]) + HexVal(s[i + 2]) >>
                    ELSE IF IsTail(i) THEN << >>
                    ELSE << s[i] >>
    IN  IF \E i \in 1..n : s[i] = PERCENT /\ ~EscOk(i)
        THEN [ok |-> FALSE, text |-> << >>]
        ELSE [ok |-> TRUE, text |-> Flatten([i \in 1..n |-> Piece(i)], 1, n)]

(***************************************************************************)
(* JavaScript values                                                       *)
(*   [kind |-> "null"]                                                     *)
(*   [kind |-> "num", digits |-> text]     a natural number, by its digits *)
(*   [kind |-> "str", text   |-> text]                                     *)
(*   [kind |-> "arr", elems  |-> seq of 0..9]                              *)
(*   [kind |-> "obj", members |-> seq of [key |-> text, val |-> num|arr]]  *)
(*   [kind |-> "list", items |-> seq of records]   an array of objects     *)
(*   [kind |-> "settings", ...]                    the userSettings object *)
(***************************************************************************)
Null == [kind |-> "null"]
Num(d) == [kind |-> "num", digits |-> d]
Str(t) == [kind |-> "str", text |-> t]
Arr(e) == [kind |-> "arr", elems |-> e]
Obj(m) == [kind |-> "obj", members |-> m]
List(xs) == [kind |-> "list", items |-> xs]

\* typeof v
TypeOf(v) ==
    IF v.kind = "str" THEN "string"
    ELSE IF v.kind = "num" THEN "number"
    ELSE "object"

(***************************************************************************)
(* JSON.stringify / JSON.parse on text, for numbers, strings without       *)
(* escapes, flat arrays of one-digit numbers, and objects whose members    *)
(* are such numbers and arrays.                                            *)
(***************************************************************************)
StringifyArr(e) ==
    LET n == Len(e)
    IN  IF n = 0 THEN << LBRACKET, RBRACKET >>
        ELSE Text([i \in 1..(2 * n + 1) |->
                    IF i = 1 THEN LBRACKET
                    ELSE IF i = 2 * n + 1 THEN RBRACKET
                    ELSE IF i % 2 = 0 THEN 48 + e[i \div 2]
                    ELSE COMMA])

StringifyFlat(v) ==
    IF v.kind = "num" THEN v.digits ELSE StringifyArr(v.elems)

StringifyObj(m) ==
    LET n == Len(m)
        Member(i) == (IF i = 1 THEN << >> ELSE << COMMA >>)
                     \o << QUOTE >> \o m[i].key \o << QUOTE, COLON >>
                     \o StringifyFlat(m[i].val)
    IN  << LBRACE >> \o Flatten([i \in 1..n |-> Member(i)], 1, n) \o << RBRACE >>

JSONStringify(v) ==
    IF v.kind = "obj" THEN StringifyObj(v.members)
    ELSE IF v.kind = "str" THEN << QUOTE >> \o v.text \o << QUOTE >>
    ELSE StringifyFlat(v)

SyntaxError == [ok |-> FALSE, v |-> Null]
Parsed(v) == [ok |-> TRUE, v |-> v]

\* a number: digits, without a leading zero
ParseNum(s, lo, hi) ==
    IF /\ lo <= hi
       /\ \A i \in lo..hi : IsDigit(s[i])
       /\ (hi > lo => s[lo] # 48)
    THEN Parsed(Num(SubSeq(s, lo, hi)))
    ELSE SyntaxError

\* a string: no quote, backslash or control character between the quotes
ParseStr(s, lo, hi) ==
    IF /\ lo < hi /\ s[lo] = QUOTE /\ s[hi] = QUOTE
       /\ \A i \in (lo + 1)..(hi - 1) : s[i] # QUOTE /\ s[i] # BACKSL /\ s[i] >= 32
    THEN Parsed(Str(SubSeq(s, lo + 1, hi - 1)))
    ELSE SyntaxError

\* an array [d,d,...,d] of one-digit numbers
ParseArr(s, lo, hi) ==
    LET n == (hi - lo) \div 2
    IN  IF lo < hi /\ s[lo] = LBRACKET /\ s[hi] = RBRACKET
        THEN IF hi = lo + 1 THEN Parsed(Arr(<< >>))
             ELSE IF /\ (hi - lo) % 2 = 0
                     /\ \A k \in 1..n : IsDigit(s[lo + 2 * k - 1])
                     /\ \A k \in 1..(n - 1) : s[lo + 2 * k] = COMMA
                  THEN Parsed(Arr(Text([k \in 1..n |-> s[lo + 2 * k - 1] - 48])))
                  ELSE SyntaxError
        ELSE SyntaxError

ParseFlat(s, lo, hi) ==
    IF lo > hi THEN SyntaxError
    ELSE IF s[lo] = LBRACKET THEN ParseArr(s, lo, hi)
    ELSE ParseNum(s, lo, hi)

\* the members "key":value,... of an object, from position p up to hi
RECURSIVE ParseMembers(_, _, _)
ParseMembers(s, p, hi) ==
    LET q == FirstIdx(s, p + 1, QUOTE)                \* closing quote of the key
        vlo == q + 2
        vhi == IF vlo <= hi /\ s[vlo] = LBRACKET
               THEN FirstIdx(s, vlo, RBRACKET)
               ELSE IF FirstIdx(s, vlo, COMMA) = 0 THEN hi
               ELSE FirstIdx(s, vlo, COMMA) - 1
        key == ParseStr(s, p, q)
        val == ParseFlat(s, vlo, vhi)
    IN  IF \/ p > hi \/ s[p] # QUOTE \/ q = 0 \/ q + 2 > hi \/ s[q + 1] # COLON
           \/ vhi = 0 \/ vhi > hi \/ ~key.ok \/ ~val.ok
        THEN [ok |-> FALSE, members |-> << >>]
        ELSE IF vhi = hi
             THEN [ok |-> TRUE, members |-> << [key |-> key.v.text, val |-> val.v] >>]
             ELSE IF s[vhi + 1] # COMMA THEN [ok |-> FALSE, members |-> << >>]
                  ELSE LET rest == ParseMembers(s, vhi + 2, hi)
                       IN  IF rest.ok
                           THEN [ok |-> TRUE,
                                 members |-> << [key |-> key.v.text, val |-> val.v] >>
                                             \o rest.members]
                           ELSE rest

ParseObj(s, lo, hi) ==
    IF lo < hi /\ s[lo] = LBRACE /\ s[hi] = RBRACE
    THEN IF hi = lo + 1 THEN Parsed(Obj(<< >>))
         ELSE LET r == ParseMembers(s, lo + 1, hi - 1)
              IN  IF r.ok THEN Parsed(Obj(r.members)) ELSE SyntaxError
    ELSE SyntaxError

JSONParse(s) ==
    IF Len(s) = 0 THEN SyntaxError
    ELSE IF s[1] = LBRACE THEN ParseObj(s, 1, Len(s))
    ELSE IF s[1] = QUOTE THEN ParseStr(s, 1, Len(s))
    ELSE ParseFlat(s, 1, Len(s))

(***************************************************************************)
(* State                                                                   *)
(***************************************************************************)
VARIABLES
    profiles,       \* AppState.profiles: profile id -> its active flag
    userSettings,   \* AppState.userSettings
    localStorage,   \* window.localStorage: key -> the stored envelope, or NoItem
    now,            \* Date.now(), in seconds
    ret,            \* the last call and what it returned
    written,        \* the last write to TEST_KEY through an adapter (history)
    refLog,         \* the chat entries added since the last clearHistory (history)
    added,          \* number of chatHistoryManager.addEntry calls so far
    calls,          \* number of handler calls of the application so far
    runs,           \* the simulateSystemOperation invocations of the page
    systemStatus,   \* AppState.systemStatus
    alerts,         \* the alerts appended to alertsContainer so far
    monitorTicks,   \* number of firings of the monitoring interval so far
    exchanges,      \* the sendAIMessage invocations of the page
    aiHistory,      \* AppState.aiHistory
    races,          \* the Utils.timeoutPromise calls of the page
    retry           \* the Utils.retryAsync call of the page

vars == << profiles, userSettings, localStorage, now, ret, written, refLog, added, calls,
           runs, systemStatus, alerts, monitorTicks, exchanges, aiHistory, races, retry >>

\* STORAGE_KEYS, and a key of the adapters' callers
CHAT_HISTORY    == "arka_chat_history"
SYSTEM_SETTINGS == "arka_system_settings"
ANALYTICS       == "arka_analytics"
TEST_KEY        == "k"
StorageKeys == {CHAT_HISTORY, SYSTEM_SETTINGS, ANALYTICS, TEST_KEY}

NoItem == [kind |-> "none"]

\* Time is counted in seconds (Date.now() / 1000), so that 30 days fit the
\* integers of the checker: 30 * 24 * 60 * 60 * 1000 ms.
EXPIRY_TIME == 30 * 24 * 60 * 60
COMPRESS_THRESHOLD == 5000
DETECT_MIN_LENGTH == 100

\* ttl = null of Utils.setLocalStorage
NoTtl == 0 - 1

(***************************************************************************)
(* Storage Adapter: saveToStorage / loadFromStorage                        *)
(***************************************************************************)
\* the value the envelope carries: the data, or its encoding
DataToSave(data, useCompression) ==
    IF useCompression /\ TypeOf(data) = "object"
    THEN LET jsonStr == JSONStringify(data)
         IN  IF Len(jsonStr) > COMPRESS_THRESHOLD
             THEN Str(Btoa(EncodeURIComponent(jsonStr)))
             ELSE data
    ELSE data

\* localStorage after saveToStorage(key, data, useCompression) at time t
SaveToStorage(store, key, data, useCompression, t) ==
    [store EXCEPT ![key] = [value |-> DataToSave(data, useCompression),
                            timestamp |-> t,
                            version |-> "1.0"]]

\* /^[A-Za-z0-9+/=]+$/.test(text)
MatchesBase64(text) ==
    Len(text) > 0 /\ \A i \in 1..Len(text) : IsB64Alpha(text[i]) \/ text[i] = EQUALS

\* Extract without its decodeURIComponent step: JSON.parse(atob(text))
ExtractWithoutUriDecoding(text) ==
    LET a == Atob(text)
    IN  IF ~a.ok THEN SyntaxError ELSE JSONParse(a.text)

\* JSON.parse(decodeURIComponent(atob(text))), or a thrown error
Extract(text) ==
    LET a == Atob(text)
        d == DecodeURIComponent(a.text)
    IN  IF ~a.ok THEN SyntaxError
        ELSE IF ~d.ok THEN SyntaxError
        ELSE JSONParse(d.text)

\* "Detect and extract compressed data"
Detect(data) ==
    IF /\ TypeOf(data) = "string"
       /\ Len(data.text) > DETECT_MIN_LENGTH
       /\ MatchesBase64(data.text)
    THEN LET x == Extract(data.text) IN IF x.ok THEN x.v ELSE data
    ELSE data

\* A stored text that is no envelope, by what JSON.parse makes of it: a
\* SyntaxError ("malformed"), null ("null"), or a number, string, array or
\* object that has no timestamp, value or ttl member ("other").
RawJson == {"malformed", "null", "other"}
RawItem(json) == [kind |-> "raw", json |-> json]
IsRaw(item) == "json" \in DOMAIN item

\* the value of a member that is not there
Undefined == [kind |-> "undefined"]

\* What the body of a try block makes of a stored text that is no envelope:
\* JSON.parse throws, or reading a member of null throws, and the catch
\* returns null; any other value has no such member, the comparison with NaN
\* is false and the undefined member `value` is returned.
OfRawItem(item) ==
    IF item.json \in {"malformed", "null"} THEN Null ELSE Undefined

\* loadFromStorage(key) at time t: the value returned and localStorage after
LoadFromStorage(store, key, t) ==
    LET stored == store[key]
    IN  IF stored = NoItem
        THEN [data |-> Null, store |-> store]
        ELSE IF IsRaw(stored)
        THEN [data |-> OfRawItem(stored), store |-> store]
        ELSE IF t - stored.timestamp > EXPIRY_TIME
             THEN [data |-> Null, store |-> [store EXCEPT ![key] = NoItem]]
             ELSE [data |-> Detect(stored.value), store |-> store]

(***************************************************************************)
(* Utils.setLocalStorage / Utils.getLocalStorage                           *)
(***************************************************************************)
SetLocalStorage(store, key, value, ttl, t) ==
    [store EXCEPT ![key] = [value |-> value, timestamp |-> t, ttl |-> ttl]]

\* item.ttl is truthy: present, not null and not 0
TtlIsSet(item) ==
    "ttl" \in DOMAIN item /\ item.ttl # NoTtl /\ item.ttl # 0

GetLocalStorage(store, key, t) ==
    LET item == store[key]
    IN  IF item = NoItem
        THEN [data |-> Null, store |-> store]
        ELSE IF IsRaw(item)
        THEN [data |-> OfRawItem(item), store |-> store]
        ELSE IF TtlIsSet(item) /\ t - item.timestamp > item.ttl
             THEN [data |-> Null, store |-> [store EXCEPT ![key] = NoItem]]
             ELSE [data |-> item.value, store |-> store]

(***************************************************************************)
(* Initial state: AppState as declared, empty localStorage                 *)
(***************************************************************************)
ProfileIds == {"gaming", "work", "editing", "default"}

InitProfiles == [p \in ProfileIds |-> p = "default"]

InitUserSettings ==
    [kind |-> "settings", theme |-> "dark", autoOptimize |-> TRUE,
     notifications |-> TRUE, selectedProfile |-> "default",
     aiAssistantEnabled |-> TRUE, chartTimeRange |-> "5m"]

\* no Utils.retryAsync call so far
NoRetry == [state |-> "none"]

\* AppState.systemStatus as declared: cpu.usage, cpu.temperature, ram.usage,
\* ram.total and ram.free.  The two amounts of memory are counted in MB
\* (ram.total = 16 GB), so that freedMemory / 1024 is a whole number of them.
InitSystemStatus ==
    [cpuUsage |-> 0, cpuTemperature |-> 45, ramUsage |-> 0,
     ramTotal |-> 16 * 1024, ramFree |-> 16 * 1024]

Init ==
    /\ profiles = InitProfiles
    /\ userSettings = InitUserSettings
    /\ localStorage = [k \in StorageKeys |-> NoItem]
    /\ now = 0
    /\ ret = [op |-> "init"]
    /\ written = [by |-> "none"]
    /\ refLog = << >>
    /\ added = 0
    /\ calls = 0
    /\ runs = << >>
    /\ systemStatus = InitSystemStatus
    /\ alerts = << >>
    /\ monitorTicks = 0
    /\ exchanges = << >>
    /\ aiHistory = << >>
    /\ races = << >>
    /\ retry = NoRetry

(***************************************************************************)
(* Time                                                                    *)
(***************************************************************************)
\* Time passes in steps of one second and of 30 days; the clock stays within
\* MaxOffset seconds after at most MaxJumps periods of 30 days.
MaxOffset == 2
MaxJumps == 1
TickSteps == {1, EXPIRY_TIME}

Tick(d) ==
    /\ (now + d) \div EXPIRY_TIME <= MaxJumps
    /\ (now + d) % EXPIRY_TIME <= MaxOffset
    /\ now' = now + d
    /\ UNCHANGED << profiles, userSettings, localStorage, ret, written, refLog, added, calls,
                    runs, systemStatus, alerts, monitorTicks,
                    exchanges, aiHistory, races, retry >>

(***************************************************************************)
(* Calls of the two storage adapters on TEST_KEY                           *)
(***************************************************************************)
CallSaveToStorage(data, useCompression) ==
    /\ localStorage' = SaveToStorage(localStorage, TEST_KEY, data, useCompression, now)
    /\ ret' = [op |-> "saveToStorage", ok |-> TRUE]
    /\ written' = [by |-> "saveToStorage", data |-> data,
                   useCompression |-> useCompression, at |-> now]
    /\ UNCHANGED << profiles, userSettings, now, refLog, added, calls,
                    runs, systemStatus, alerts, monitorTicks,
                    exchanges, aiHistory, races, retry >>

CallLoadFromStorage ==
    LET r == LoadFromStorage(localStorage, TEST_KEY, now)
    IN  /\ localStorage' = r.store
        /\ ret' = [op |-> "loadFromStorage", data |-> r.data, at |-> now]
        /\ UNCHANGED << profiles, userSettings, now, written, refLog, added, calls,
                    runs, systemStatus, alerts, monitorTicks,
                    exchanges, aiHistory, races, retry >>

CallSetLocalStorage(value, ttl) ==
    /\ localStorage' = SetLocalStorage(localStorage, TEST_KEY, value, ttl, now)
    /\ ret' = [op |-> "setLocalStorage"]
    /\ written' = [by |-> "setLocalStorage", data |-> value, ttl |-> ttl, at |-> now]
    /\ UNCHANGED << profiles, userSettings, now, refLog, added, calls,
                    runs, systemStatus, alerts, monitorTicks,
                    exchanges, aiHistory, races, retry >>

CallGetLocalStorage ==
    LET r == GetLocalStorage(localStorage, TEST_KEY, now)
    IN  /\ localStorage' = r.store
        /\ ret' = [op |-> "getLocalStorage", data |-> r.data, at |-> now]
        /\ UNCHANGED << profiles, userSettings, now, written, refLog, added, calls,
                    runs, systemStatus, alerts, monitorTicks,
                    exchanges, aiHistory, races, retry >>

(***************************************************************************)
(* SpecTtl: both adapters on small values, over the whole range of time    *)
(***************************************************************************)
KeyA  == << 97 >>
KeyB  == << 98 >>
KeyAB == << 97, 98 >>

\* {a:1,b:[1,2,3]}
SmallObj == Obj(<< [key |-> KeyA, val |-> Num(<< 49 >>)],
                   [key |-> KeyB, val |-> Arr(<< 1, 2, 3 >>)] >>)
\* "hello"
ShortStr == Str(<< 104, 101, 108, 108, 111 >>)

SmallValues == {SmallObj, ShortStr}
TtlValues == {NoTtl, 0, 2}

NextTtl ==
    \/ \E data \in SmallValues, c \in BOOLEAN : CallSaveToStorage(data, c)
    \/ CallLoadFromStorage
    \/ \E value \in SmallValues, ttl \in TtlValues : CallSetLocalStorage(value, ttl)
    \/ CallGetLocalStorage
    \/ \E d \in TickSteps : Tick(d)

SpecTtl == Init /\ [][NextTtl]_vars

(***************************************************************************)
(* SpecCodec: saveToStorage / loadFromStorage on values around the size    *)
(* threshold and on strings around the detection heuristic                 *)
(***************************************************************************)
\* digits 1,2,...,9,0,1,... of an array of n one-digit numbers
Digits(n) == Text([i \in 1..n |-> i % 10])

\* an array whose JSON text has COMPRESS_THRESHOLD + 1 characters
ArrOver  == Arr(Digits(COMPRESS_THRESHOLD \div 2))
\* {"ab":[...]} whose JSON text has exactly COMPRESS_THRESHOLD characters
ObjAt    == Obj(<< [key |-> KeyAB, val |-> Arr(Digits((COMPRESS_THRESHOLD - 8) \div 2))] >>)
\* {"a":7,"ab":[...]} whose JSON text has COMPRESS_THRESHOLD + 1 characters
ObjOver  == Obj(<< [key |-> KeyA, val |-> Num(<< 55 >>)],
                   [key |-> KeyAB, val |-> Arr(Digits((COMPRESS_THRESHOLD - 14) \div 2))] >>)
StructuredValues == {SmallObj, ArrOver, ObjAt, ObjOver}

\* longer than DETECT_MIN_LENGTH, with a character ("-") outside the class
LongPlain == Str(Rep(97, DETECT_MIN_LENGTH) \o << 45 >>)
\* "AAAA...": in the class, decodes to no JSON text
LongAs == Str(Rep(65, DETECT_MIN_LENGTH + 4))
\* in the class, and the base64 text of the JSON text "aaa...a" (a string)
B64OfJsonStr(n) == Str(Btoa(<< QUOTE >> \o Rep(97, n) \o << QUOTE >>))
\* the same with exactly DETECT_MIN_LENGTH characters, and with more
B64Short == B64OfJsonStr(((DETECT_MIN_LENGTH * 3) \div 4) - 2)
B64Long  == B64OfJsonStr(((DETECT_MIN_LENGTH * 3) \div 4) + 1)
\* in the class, and what the transform gives for the array [1,2,...]
B64OfArr == Str(Btoa(EncodeURIComponent(JSONStringify(Arr(Digits(DETECT_MIN_LENGTH \div 4))))))
StringValues == {ShortStr, LongPlain, LongAs, B64Short, B64Long, B64OfArr}

CodecValues == StructuredValues \cup StringValues
MaxCodecNow == 1

NextCodec ==
    \/ \E data \in CodecValues, c \in BOOLEAN : CallSaveToStorage(data, c)
    \/ CallLoadFromStorage
    \/ now + 1 <= MaxCodecNow /\ Tick(1)

SpecCodec == Init /\ [][NextCodec]_vars

(***************************************************************************)
(* SpecFault: the adapters on a store whose setItem throws                 *)
(* (QuotaExceededError) and on stored texts that are no envelope           *)
(***************************************************************************)
\* saveToStorage when localStorage.setItem throws: the catch returns false
CallSaveToStorageOnFullStore(data, useCompression) ==
    /\ ret' = [op |-> "saveToStorage", ok |-> FALSE, threw |-> FALSE, full |-> TRUE]
    /\ UNCHANGED << profiles, userSettings, localStorage, now, written, refLog,
                    added, calls,
                    runs, systemStatus, alerts, monitorTicks,
                    exchanges, aiHistory, races, retry >>

\* Utils.setLocalStorage when localStorage.setItem throws: the method has no
\* try block, the exception leaves it
CallSetLocalStorageOnFullStore(value, ttl) ==
    /\ ret' = [op |-> "setLocalStorage", threw |-> TRUE, full |-> TRUE]
    /\ UNCHANGED << profiles, userSettings, localStorage, now, written, refLog,
                    added, calls,
                    runs, systemStatus, alerts, monitorTicks,
                    exchanges, aiHistory, races, retry >>

\* another script of the page leaves a text of its own under the key
ForeignWrite(json) ==
    /\ localStorage' = [localStorage EXCEPT ![TEST_KEY] = RawItem(json)]
    /\ ret' = [op |-> "foreignWrite"]
    /\ written' = [by |-> "foreignWrite"]
    /\ UNCHANGED << profiles, userSettings, now, refLog, added, calls,
                    runs, systemStatus, alerts, monitorTicks,
                    exchanges, aiHistory, races, retry >>

NextFault ==
    \/ \E data \in SmallValues, c \in BOOLEAN : CallSaveToStorage(data, c)
    \/ \E data \in SmallValues, c \in BOOLEAN : CallSaveToStorageOnFullStore(data, c)
    \/ CallLoadFromStorage
    \/ \E value \in SmallValues, ttl \in TtlValues : CallSetLocalStorage(value, ttl)
    \/ \E value \in SmallValues, ttl \in TtlValues :
          CallSetLocalStorageOnFullStore(value, ttl)
    \/ CallGetLocalStorage
    \/ \E json \in RawJson : ForeignWrite(json)
    \/ \E d \in TickSteps : Tick(d)

SpecFault == Init /\ [][NextFault]_vars

(***************************************************************************)
(* Analytics: trackEvent                                                   *)
(***************************************************************************)
ANALYTICS_LIMIT == 500

\* the array read by loadFromStorage(key) || []
ItemsOrEmpty(data) == IF data = Null THEN << >> ELSE data.items

\* localStorage after trackEvent(eventName, eventData) at time t
TrackEvent(store, eventName, eventData, t) ==
    LET l == LoadFromStorage(store, ANALYTICS, t)
        pushed == Append(ItemsOrEmpty(l.data),
                         [event |-> eventName, data |-> eventData, time |-> t])
        analytics == IF Len(pushed) > ANALYTICS_LIMIT THEN Tail(pushed) ELSE pushed
    IN  SaveToStorage(l.store, ANALYTICS, List(analytics), FALSE, t)

\* bound on the number of handler calls in one run
MaxCalls == 3

\* one more handler call
Called ==
    /\ calls < MaxCalls
    /\ calls' = calls + 1

(***************************************************************************)
(* Profile Registry                                                        *)
(***************************************************************************)
\* keys that AppState.profiles[profileId] finds on Object.prototype
InheritedKeys == {"constructor"}
\* ids activateProfile is called with: the registry, an inherited key, a
\* key that is nowhere
ProfileArgs == ProfileIds \cup InheritedKeys \cup {"turbo"}

\* number of profiles whose active flag is set
ActiveCount == Cardinality({p \in ProfileIds : profiles[p]})

\* activateProfile without its "deactivate all profiles" loop
ActivateProfileWithoutDeactivation(profileId) ==
    /\ Called
    /\ IF profileId \in ProfileIds \cup InheritedKeys
       THEN /\ profiles' = IF profileId \in ProfileIds
                           THEN [profiles EXCEPT ![profileId] = TRUE]
                           ELSE profiles
            /\ userSettings' = [userSettings EXCEPT !.selectedProfile = profileId]
            /\ localStorage' = TrackEvent(localStorage, "profile_activated", profileId, now)
       ELSE UNCHANGED << profiles, userSettings, localStorage >>
    /\ ret' = [op |-> "activateProfile", id |-> profileId, returned |-> "undefined",
               activeBefore |-> ActiveCount]
    /\ UNCHANGED << now, written, refLog, added,
                    runs, systemStatus, alerts, monitorTicks,
                    exchanges, aiHistory, races, retry >>

\* activateProfile(profileId); the function has no return statement
ActivateProfile(profileId) ==
    LET deactivated == [p \in ProfileIds |-> FALSE]
    IN  /\ Called
        /\ IF profileId \in ProfileIds \cup InheritedKeys
           THEN /\ profiles' = IF profileId \in ProfileIds
                               THEN [deactivated EXCEPT ![profileId] = TRUE]
                               ELSE deactivated
                /\ userSettings' = [userSettings EXCEPT !.selectedProfile = profileId]
                /\ localStorage' = TrackEvent(localStorage, "profile_activated", profileId, now)
           ELSE /\ profiles' = deactivated
                /\ UNCHANGED << userSettings, localStorage >>
        /\ ret' = [op |-> "activateProfile", id |-> profileId, returned |-> "undefined",
                   activeBefore |-> ActiveCount]
        /\ UNCHANGED << now, written, refLog, added,
                    runs, systemStatus, alerts, monitorTicks,
                    exchanges, aiHistory, races, retry >>

\* saveUserSettings()
SaveUserSettings(store, settings, t) ==
    SaveToStorage(store, SYSTEM_SETTINGS, settings, FALSE, t)

ToggleIds == {"autoOptimizeToggle", "notificationsToggle"}

\* the change handler of a .toggle-switch
ToggleSetting(settingId, value) ==
    /\ Called
    /\ userSettings' =
          IF settingId = "autoOptimizeToggle"
          THEN [userSettings EXCEPT !.autoOptimize = value]
          ELSE IF settingId = "notificationsToggle"
               THEN [userSettings EXCEPT !.notifications = value]
               ELSE userSettings
    /\ localStorage' = SaveUserSettings(localStorage, userSettings', now)
    /\ ret' = [op |-> "toggleSetting"]
    /\ UNCHANGED << profiles, now, written, refLog, added,
                    runs, systemStatus, alerts, monitorTicks,
                    exchanges, aiHistory, races, retry >>

\* loadSavedData(): { ...AppState.userSettings, ...savedSettings }
LoadSavedData(store, settings, t) ==
    LET l == LoadFromStorage(store, SYSTEM_SETTINGS, t)
    IN  [settings |-> IF l.data = Null THEN settings ELSE l.data, store |-> l.store]

\* A page load on the storage `store`: AppState is built anew, then the
\* DOMContentLoaded handler runs initializeComponents (initializeAIAssistant
\* reads the chat history, then system_initialized is tracked) and
\* loadSavedData.
Startup(store) ==
    \E chat \in {LoadFromStorage(store, CHAT_HISTORY, now)} :
    \E tracked \in {TrackEvent(chat.store, "system_initialized", "components", now)} :
    \E loaded \in {LoadSavedData(tracked, InitUserSettings, now)} :
        /\ profiles' = InitProfiles
        /\ userSettings' = loaded.settings
        /\ localStorage' = loaded.store
        /\ runs' = << >>
        /\ systemStatus' = InitSystemStatus
        /\ alerts' = << >>
        /\ monitorTicks' = 0
        /\ exchanges' = << >>
        /\ aiHistory' = ItemsOrEmpty(chat.data)
        /\ races' = << >>
        /\ retry' = NoRetry
        /\ UNCHANGED << now, written, refLog, added >>

Reload ==
    /\ Called
    /\ Startup(localStorage)
    /\ ret' = [op |-> "reload"]

\* ArkaApp.debug.resetSettings(): localStorage.clear(); location.reload()
ResetSettings ==
    /\ Called
    /\ Startup([k \in StorageKeys |-> NoItem])
    /\ ret' = [op |-> "resetSettings"]

NextProfile ==
    \/ \E id \in ProfileArgs : ActivateProfile(id)
    \/ \E t \in ToggleIds, v \in BOOLEAN : ToggleSetting(t, v)
    \/ Reload
    \/ ResetSettings
    \/ Tick(EXPIRY_TIME + 1)

SpecProfile == Init /\ [][NextProfile]_vars

(***************************************************************************)
(* Chat History Manager                                                    *)
(***************************************************************************)
HISTORY_LIMIT == 100

\* id: Date.now().toString(36) + Math.random().toString(36).substr(2); the
\* random suffix is taken fresh for every call (the serial number of the call)
NewEntry(userInput, aiResponse, category, t, serial) ==
    [id |-> [time |-> t, rand |-> serial], userInput |-> userInput,
     aiResponse |-> aiResponse, category |-> category, timestamp |-> t,
     tags |-> << >>]

\* unshift with shift() in place of pop(): the first element is removed
UnshiftedThenShifted(history, newEntry) ==
    LET h == << newEntry >> \o history
    IN  IF Len(h) > HISTORY_LIMIT THEN Tail(h) ELSE h

\* history.unshift(newEntry); if (history.length > 100) history.pop()
Unshifted(history, newEntry) ==
    LET h == << newEntry >> \o history
    IN  IF Len(h) > HISTORY_LIMIT THEN SubSeq(h, 1, Len(h) - 1) ELSE h

MaxAdds == 102
\* a period of more than 30 days without a call falls within the first
\* MaxIdleAfter additions
MaxIdleAfter == 2

\* chatHistoryManager.addEntry(userInput, aiResponse, category)
AddEntry(userInput, aiResponse, category) ==
    LET l == LoadFromStorage(localStorage, CHAT_HISTORY, now)
        newEntry == NewEntry(userInput, aiResponse, category, now, added + 1)
        history == Unshifted(ItemsOrEmpty(l.data), newEntry)
    IN  /\ added < MaxAdds
        /\ added' = added + 1
        /\ localStorage' = SaveToStorage(l.store, CHAT_HISTORY, List(history), FALSE, now)
        /\ ret' = [op |-> "addEntry", entry |-> newEntry]
        /\ refLog' = SubSeq(<< newEntry >> \o refLog, 1,
                            IF Len(refLog) + 1 > HISTORY_LIMIT
                            THEN HISTORY_LIMIT ELSE Len(refLog) + 1)
        /\ UNCHANGED << profiles, userSettings, now, written, calls,
                    runs, systemStatus, alerts, monitorTicks,
                    exchanges, aiHistory, races, retry >>

\* clearHistory that removes another key than the chat history's
ClearHistoryOfOtherKey ==
    /\ localStorage' = [localStorage EXCEPT ![ANALYTICS] = NoItem]
    /\ ret' = [op |-> "clearHistory"]
    /\ refLog' = << >>
    /\ UNCHANGED << profiles, userSettings, now, written, added, calls,
                    runs, systemStatus, alerts, monitorTicks,
                    exchanges, aiHistory, races, retry >>

\* chatHistoryManager.clearHistory()
ClearHistory ==
    /\ localStorage' = [localStorage EXCEPT ![CHAT_HISTORY] = NoItem]
    /\ ret' = [op |-> "clearHistory"]
    /\ refLog' = << >>
    /\ UNCHANGED << profiles, userSettings, now, written, added, calls,
                    runs, systemStatus, alerts, monitorTicks,
                    exchanges, aiHistory, races, retry >>

NextChat ==
    \/ AddEntry("optimize my system", "System Optimization Suggestions",
                "system_optimization")
    \/ ClearHistory
    \/ added <= MaxIdleAfter /\ Tick(EXPIRY_TIME + 1)

SpecChat == Init /\ [][NextChat]_vars

(***************************************************************************)
(* Profile Registry: properties                                            *)
(***************************************************************************)
\* C1: in every reachable state exactly one profile has active = true.
C1_ExactlyOneActive == ActiveCount = 1

\* C2: activateProfile(id) with an id that is not in the registry returns
\* false and leaves every active flag and userSettings.selectedProfile as
\* they were before the call.
C2_UnknownIdChangesNothing ==
    [][(/\ calls' = calls + 1
        /\ ret'.op = "activateProfile"
        /\ ret'.id \notin ProfileIds)
       => (/\ ret'.returned = "false"
           /\ profiles' = profiles
           /\ userSettings'.selectedProfile = userSettings.selectedProfile)]_vars

\* C3: after activateProfile(id) with an id of the registry, whatever the
\* state before, exactly one profile is active, it is id, and
\* userSettings.selectedProfile = id.
C3_KnownIdIsTheOneActive ==
    (ret.op = "activateProfile" /\ ret.id \in ProfileIds)
    => (/\ \A p \in ProfileIds : profiles[p] <=> (p = ret.id)
        /\ ActiveCount = 1
        /\ userSettings.selectedProfile = ret.id)

\* C3 witness: a profile of the registry was activated from a state in which
\* no profile was active.
C3_Witness ==
    /\ ret.op = "activateProfile"
    /\ ret.id = "gaming"
    /\ ret.activeBefore = 0
    /\ profiles["gaming"]
    /\ userSettings.selectedProfile = "gaming"

\* C4: a successful activateProfile(id) returns true and leaves the settings
\* entry of localStorage holding selectedProfile = id.
C4_ActivationIsPersisted ==
    (ret.op = "activateProfile" /\ ret.id \in ProfileIds)
    => (/\ ret.returned = "true"
        /\ localStorage[SYSTEM_SETTINGS] # NoItem
        /\ localStorage[SYSTEM_SETTINGS].value.selectedProfile = ret.id)

(***************************************************************************)
(* Chat History Manager: properties                                        *)
(***************************************************************************)
\* the log that localStorage holds
PersistedLog ==
    IF localStorage[CHAT_HISTORY] = NoItem THEN << >>
    ELSE localStorage[CHAT_HISTORY].value.items

\* the log read back: loadFromStorage(CHAT_HISTORY) || []
LoadedLog == ItemsOrEmpty(LoadFromStorage(localStorage, CHAT_HISTORY, now).data)

C6_ReadBackIsReference == LoadedLog = refLog

\* no more than 30 days between two consecutive entries of the log
NoGap(log) ==
    \A i \in 1..(Len(log) - 1) : log[i].timestamp - log[i + 1].timestamp <= EXPIRY_TIME

\* C6 amended: when no more than 30 days passed between one addEntry and the
\* next, the log read back within 30 days of the last addEntry is the
\* reference log; after clearHistory it is empty.
C6_ReadBackIsReferenceWithinExpiry ==
    /\ (NoGap(refLog) /\ (refLog # << >> => now - refLog[1].timestamp <= EXPIRY_TIME))
       => LoadedLog = refLog
    /\ ret.op = "clearHistory" => LoadedLog = << >>

\* C6 witness: more than 100 entries were added without a gap of 30 days and
\* the log read back is the 100 most recent of them, newest first.
C6_Witness ==
    /\ ret.op = "addEntry"
    /\ Len(refLog) = HISTORY_LIMIT
    /\ refLog[HISTORY_LIMIT].id.rand > 1
    /\ NoGap(refLog)
    /\ LoadedLog = refLog

(***************************************************************************)
(* Storage Adapter: properties                                             *)
(***************************************************************************)
\* the last call read TEST_KEY through the adapter that wrote it last
ReadOwnWrite ==
    \/ ret.op = "loadFromStorage" /\ written.by = "saveToStorage"
    \/ ret.op = "getLocalStorage" /\ written.by = "setLocalStorage"

\* C7: a value stored with Utils.setLocalStorage(key, value, 0) and read with
\* Utils.getLocalStorage(key) after a positive elapsed time is absent (null).
C7_TtlZeroReadsAbsent ==
    (/\ ret.op = "getLocalStorage"
     /\ written.by = "setLocalStorage"
     /\ written.ttl = 0
     /\ ret.at > written.at)
    => ret.data = Null

\* the ttl the item was written with, 30 days for an item without one
TtlOfWritten ==
    IF written.by = "setLocalStorage" /\ written.ttl # NoTtl
    THEN written.ttl
    ELSE EXPIRY_TIME

\* C8: for both adapters a read returns the stored value only while
\* now - timestamp <= ttl (30 days for an item stored without a ttl); a read
\* of an expired item returns absent and removes the key.
C8_VisibleOnlyWithinTtl ==
    (/\ ReadOwnWrite
     /\ ret.at - written.at > TtlOfWritten)
    => (ret.data = Null /\ localStorage[TEST_KEY] = NoItem)

C10_DecodesOnlyWhatWasEncoded ==
    (/\ ret.op = "loadFromStorage"
     /\ written.by = "saveToStorage"
     /\ ret.at - written.at <= EXPIRY_TIME
     /\ localStorage[TEST_KEY] # NoItem
     /\ localStorage[TEST_KEY].value = written.data)
    => ret.data = written.data

\* C11: no exception escapes the storage adapter. A set operation on a store
\* whose write throws returns without throwing and reports failure; a get
\* operation on a stored text that is malformed or is no envelope returns
\* absent (null or undefined) without throwing.
C11_NoExceptionEscapes ==
    /\ "threw" \in DOMAIN ret => ~ret.threw
    /\ "full" \in DOMAIN ret => "ok" \in DOMAIN ret /\ ~ret.ok
    /\ (ret.op \in {"loadFromStorage", "getLocalStorage"} /\ written.by = "foreignWrite")
          => ret.data \in {Null, Undefined}

(***************************************************************************)
(* Metrics: generateChartData                                              *)
(*                                                                         *)
(* min, max are counted in hundredths, y in tenths (toFixed(1)), the noise *)
(* and the oscillation in thousandths; a timestamp is counted in seconds,  *)
(* as the clock is.                                                        *)
(***************************************************************************)
MetricKinds == {"cpu", "ram", "disk", "network"}

\* Math.sin(i * f) * a in thousandths, for i = 0..4, by metric kind
OscillationTable ==
    [cpu     |-> << 0, 30, 60, 89, 117 >>,
     ram     |-> << 0, 10, 20, 30, 40 >>,
     disk    |-> << 0, 4, 9, 13, 18 >>,
     network |-> << 0, 79, 156, 226, 287 >>]

\* the oscillation term of the switch; the default case has none
Oscillation(type, i) ==
    IF type \in MetricKinds THEN OscillationTable[type][i + 1] ELSE 0

\* Math.random() * 0.1 - 0.05 lies in [-0.05, 0.05): its ends and its middle
RandomFactors == {0 - 50, 0, 49}

Min2(a, b) == IF a < b THEN a ELSE b
Max2(a, b) == IF a > b THEN a ELSE b

\* Number(value.toFixed(1)) in tenths, of a value counted in 1/200000
ToFixed1(value) ==
    IF value >= 0
    THEN (value + 10000) \div 20000
    ELSE 0 - ((10000 - value) \div 20000)

\* y of the point i seconds ago
ChartValue(min, max, type, i, randomFactor) ==
    LET value == (min + max) * (1000 + Oscillation(type, i) + randomFactor)
        limited == Max2(min * 2000, Min2(max * 2000, value))
    IN  ToFixed1(limited)

\* generateChartData(count, min, max, type) at time t with the noise rf[i]
GenerateChartData(count, min, max, type, rf, t) ==
    [k \in 1..count |->
        [x |-> t - (count - k),
         y |-> ChartValue(min, max, type, count - k, rf[count - k + 1])]]

MaxCount == 3
\* << min, max >> in hundredths: 20..90, 20.04..20.04, -10..-5, 0.26..0.34
ChartRanges == {<< 2000, 9000 >>, << 2004, 2004 >>, << 0 - 1000, 0 - 500 >>,
                << 26, 34 >>}
ChartKinds == MetricKinds \cup {"gpu"}

CallGenerateChartData(count, range, type) ==
    \E rf \in [1..count -> RandomFactors] :
        /\ ret' = [op |-> "generateChartData", count |-> count, min |-> range[1],
                   max |-> range[2], type |-> type, at |-> now,
                   data |-> GenerateChartData(count, range[1], range[2], type, rf, now)]
        /\ UNCHANGED << profiles, userSettings, localStorage, now, written, refLog,
                        added, calls,
                    runs, systemStatus, alerts, monitorTicks,
                    exchanges, aiHistory, races, retry >>

NextChart ==
    \/ \E count \in 0..MaxCount, range \in ChartRanges, type \in ChartKinds :
          CallGenerateChartData(count, range, type)
    \/ Tick(1)

SpecChart == Init /\ [][NextChart]_vars

\* C12: generateChartData(count, min, max, kind) returns exactly count points
\* whose values all lie in [min, max], whose timestamps ascend by exactly one
\* second, the last point being the newest (now).
C12_SeriesWithinRangeAscending ==
    ret.op = "generateChartData" =>
        /\ Len(ret.data) = ret.count
        /\ \A k \in 1..Len(ret.data) :
              /\ ret.min <= ret.data[k].y * 10
              /\ ret.data[k].y * 10 <= ret.max
        /\ \A k \in 1..(Len(ret.data) - 1) : ret.data[k + 1].x = ret.data[k].x + 1
        /\ Len(ret.data) > 0 => ret.data[Len(ret.data)].x = ret.at

(***************************************************************************)
(* Assistant Template Engine: AILocalEngine.processQuery, categorizeCommand *)
(*                                                                         *)
(* A string is the sequence of its UTF-16 code units.                      *)
(***************************************************************************)
DOLLAR == 36
AMPERSAND == 38
APOSTROPHE == 39
BACKTICK == 96
SPACE == 32

\* String.prototype.toLowerCase on Basic Latin and Arabic-script text: A-Z are
\* mapped to a-z, a letter that has no case is kept
ToLowerCase(text) ==
    Text([i \in 1..Len(text) |-> IF IsUpper(text[i]) THEN text[i] + 32 ELSE text[i]])

\* String.prototype.indexOf, counted from 1; 0 when there is no occurrence
IndexOf(text, needle) ==
    LET at == {i \in 1..(Len(text) - Len(needle) + 1) :
                  SubSeq(text, i, i + Len(needle) - 1) = needle}
    IN  IF at = {} THEN 0 ELSE CHOOSE i \in at : \A j \in at : i <= j

\* String.prototype.includes
Includes(text, needle) == IndexOf(text, needle) > 0

\* GetSubstitution of a string pattern (no captures): $$ is a dollar sign, $&
\* the matched text, $` the text before the match, $' the text after it;
\* any other character, and a $ followed by anything else, stands for itself
RECURSIVE GetSubstitution(_, _, _, _, _)
GetSubstitution(replacement, i, matched, before, after) ==
    IF i > Len(replacement) THEN << >>
    ELSE IF replacement[i] = DOLLAR /\ i < Len(replacement)
              /\ replacement[i + 1] \in {DOLLAR, AMPERSAND, BACKTICK, APOSTROPHE}
    THEN (CASE replacement[i + 1] = DOLLAR -> << DOLLAR >>
            [] replacement[i + 1] = AMPERSAND -> matched
            [] replacement[i + 1] = BACKTICK -> before
            [] replacement[i + 1] = APOSTROPHE -> after)
         \o GetSubstitution(replacement, i + 2, matched, before, after)
    ELSE << replacement[i] >>
         \o GetSubstitution(replacement, i + 1, matched, before, after)

\* String.prototype.replace(pattern, replacement) with a string pattern: the
\* first occurrence only
StringReplace(text, pattern, replacement) ==
    LET p == IndexOf(text, pattern)
        before == SubSeq(text, 1, p - 1)
        after == SubSeq(text, p + Len(pattern), Len(text))
    IN  IF p = 0 THEN text
        ELSE before \o GetSubstitution(replacement, 1, pattern, before, after) \o after

\* '{query}'
Placeholder ==
    << 123, 113, 117, 101, 114, 121, 125 >>

\* the keywords of the first test of processQuery
OptimizationKeywords ==
    {<< 1576, 1607, 1740, 1606, 1607 >>,
     << 1587, 1585, 1593, 1578 >>,
     << 1705, 1606, 1583 >>}

\* the keywords of the second test of processQuery
FileKeywords ==
    {<< 1601, 1575, 1740, 1604 >>,
     << 1662, 1575, 1705 >>,
     << 1581, 1584, 1601 >>}

\* the keywords of the third test of processQuery
NetworkKeywords ==
    {<< 1588, 1576, 1705, 1607 >>,
     << 1575, 1740, 1606, 1578, 1585, 1606, 1578 >>,
     << 1575, 1578, 1589, 1575, 1604 >>}

\* this.templates, each template up to the second line after its placeholder
\* (the rest holds no placeholder and no part of the replacement)
Templates ==
    [system_optimization |->
        << 35, 32, 55357, 56615, 32, 1576, 1607, 1740, 1606, 1607, 8204,
           1587, 1575, 1586, 1740, 32, 1587, 1740, 1587, 1578, 1605, 10,
           10, 42, 42, 1583, 1585, 1582, 1608, 1575, 1587, 1578, 32, 1588,
           1605, 1575, 58, 42, 42, 32, 34, 123, 113, 117, 101, 114, 121,
           125, 34, 10, 10, 42, 42, 1585, 1575, 1607, 8204, 1581, 1604,
           8204, 1607, 1575, 1740, 32, 1662, 1740, 1588, 1606, 1607, 1575,
           1583, 1740, 58, 42, 42, 10 >>,
     file_management |->
        << 35, 32, 55357, 56513, 32, 1605, 1583, 1740, 1585, 1740, 1578,
           32, 1601, 1575, 1740, 1604, 8204, 1607, 1575, 10, 10, 42, 42,
           1583, 1585, 1582, 1608, 1575, 1587, 1578, 32, 1588, 1605, 1575,
           58, 42, 42, 32, 34, 123, 113, 117, 101, 114, 121, 125, 34, 10,
           10, 42, 42, 1585, 1575, 1607, 8204, 1581, 1604, 8204, 1607,
           1575, 1740, 32, 1662, 1740, 1588, 1606, 1607, 1575, 1583, 1740,
           58, 42, 42, 10 >>,
     network |->
        << 35, 32, 55356, 57104, 32, 1605, 1583, 1740, 1585, 1740, 1578,
           32, 1588, 1576, 1705, 1607, 10, 10, 42, 42, 1583, 1585, 1582,
           1608, 1575, 1587, 1578, 32, 1588, 1605, 1575, 58, 42, 42, 32,
           34, 123, 113, 117, 101, 114, 121, 125, 34, 10, 10, 42, 42, 1585,
           1575, 1607, 8204, 1581, 1604, 8204, 1607, 1575, 1740, 32, 1662,
           1740, 1588, 1606, 1607, 1575, 1583, 1740, 58, 42, 42, 10 >>,
     general |->
        << 35, 32, 55358, 56598, 32, 1570, 1585, 1705, 1575, 32, 45, 32,
           1583, 1587, 1578, 1740, 1575, 1585, 32, 1607, 1608, 1588, 1605,
           1606, 1583, 10, 10, 42, 42, 1587, 1604, 1575, 1605, 33, 42, 42,
           32, 1605, 1606, 32, 1570, 1585, 1705, 1575, 32, 1607, 1587,
           1578, 1605, 1548, 32, 1583, 1587, 1578, 1740, 1575, 1585, 32,
           1607, 1608, 1588, 1605, 1606, 1583, 32, 1605, 1583, 1740, 1585,
           1740, 1578, 32, 1587, 1740, 1587, 1578, 1605, 32, 1608, 1740,
           1606, 1583, 1608, 1586, 46, 10, 10, 1583, 1585, 1582, 1608,
           1575, 1587, 1578, 32, 1588, 1605, 1575, 58, 32, 34, 123, 113,
           117, 101, 114, 121, 125, 34, 10, 10, 1576, 1585, 1575, 1740, 32,
           1705, 1605, 1705, 32, 1576, 1607, 32, 1588, 1605, 1575, 1548,
           32, 1604, 1591, 1601, 1575, 1611, 32, 1740, 1705, 1740, 32,
           1575, 1586, 32, 1605, 1608, 1575, 1585, 1583, 32, 1586, 1740,
           1585, 32, 1585, 1575, 32, 1575, 1606, 1580, 1575, 1605, 32,
           1583, 1607, 1740, 1583, 58, 10 >>]

\* the intent, were the file test made before the optimization test
IntentFileFirst(query) ==
    LET lowerQuery == ToLowerCase(query)
    IN  IF \E k \in FileKeywords : Includes(lowerQuery, k)
        THEN "file_management"
        ELSE IF \E k \in OptimizationKeywords : Includes(lowerQuery, k)
        THEN "system_optimization"
        ELSE IF \E k \in NetworkKeywords : Includes(lowerQuery, k)
        THEN "network"
        ELSE "general"

\* the intent that processQuery settles on
Intent(query) ==
    LET lowerQuery == ToLowerCase(query)
    IN  IF \E k \in OptimizationKeywords : Includes(lowerQuery, k)
        THEN "system_optimization"
        ELSE IF \E k \in FileKeywords : Includes(lowerQuery, k)
        THEN "file_management"
        ELSE IF \E k \in NetworkKeywords : Includes(lowerQuery, k)
        THEN "network"
        ELSE "general"

\* processQuery(query): the rendered response
ProcessQuery(query) ==
    StringReplace(Templates[Intent(query)], Placeholder, query)

\* the categories of categorizeCommand in the order of Object.entries; the
\* keyword lists are system: cpu, ram, memory, processing, process, system;
\* network: network, internet, ping, port, speed, download, upload; security:
\* security, virus, antivirus, scan, malware, firewall; gaming: game, gaming,
\* graphics, fps, performance; optimization: optimize, fast, slow, speed,
\* boost, performance; disk: disk, storage, drive, hdd, ssd, space;
\* automation: script, automation, batch, schedule, task
Categories ==
    << [category |-> "system", keywords |->
          {<< 99, 112, 117 >>,
           << 114, 97, 109 >>,
           << 109, 101, 109, 111, 114, 121 >>,
           << 112, 114, 111, 99, 101, 115, 115, 105, 110, 103 >>,
           << 112, 114, 111, 99, 101, 115, 115 >>,
           << 115, 121, 115, 116, 101, 109 >>}],
       [category |-> "network", keywords |->
          {<< 110, 101, 116, 119, 111, 114, 107 >>,
           << 105, 110, 116, 101, 114, 110, 101, 116 >>,
           << 112, 105, 110, 103 >>,
           << 112, 111, 114, 116 >>,
           << 115, 112, 101, 101, 100 >>,
           << 100, 111, 119, 110, 108, 111, 97, 100 >>,
           << 117, 112, 108, 111, 97, 100 >>}],
       [category |-> "security", keywords |->
          {<< 115, 101, 99, 117, 114, 105, 116, 121 >>,
           << 118, 105, 114, 117, 115 >>,
           << 97, 110, 116, 105, 118, 105, 114, 117, 115 >>,
           << 115, 99, 97, 110 >>,
           << 109, 97, 108, 119, 97, 114, 101 >>,
           << 102, 105, 114, 101, 119, 97, 108, 108 >>}],
       [category |-> "gaming", keywords |->
          {<< 103, 97, 109, 101 >>,
           << 103, 97, 109, 105, 110, 103 >>,
           << 103, 114, 97, 112, 104, 105, 99, 115 >>,
           << 102, 112, 115 >>,
           << 112, 101, 114, 102, 111, 114, 109, 97, 110, 99, 101 >>}],
       [category |-> "optimization", keywords |->
          {<< 111, 112, 116, 105, 109, 105, 122, 101 >>,
           << 102, 97, 115, 116 >>,
           << 115, 108, 111, 119 >>,
           << 115, 112, 101, 101, 100 >>,
           << 98, 111, 111, 115, 116 >>,
           << 112, 101, 114, 102, 111, 114, 109, 97, 110, 99, 101 >>}],
       [category |-> "disk", keywords |->
          {<< 100, 105, 115, 107 >>,
           << 115, 116, 111, 114, 97, 103, 101 >>,
           << 100, 114, 105, 118, 101 >>,
           << 104, 100, 100 >>,
           << 115, 115, 100 >>,
           << 115, 112, 97, 99, 101 >>}],
       [category |-> "automation", keywords |->
          {<< 115, 99, 114, 105, 112, 116 >>,
           << 97, 117, 116, 111, 109, 97, 116, 105, 111, 110 >>,
           << 98, 97, 116, 99, 104 >>,
           << 115, 99, 104, 101, 100, 117, 108, 101 >>,
           << 116, 97, 115, 107 >>}] >>

\* categorizeCommand(command)
CategorizeCommand(command) ==
    LET lowerCommand == ToLowerCase(command)
        hits == {i \in 1..Len(Categories) :
                    \E k \in Categories[i].keywords : Includes(lowerCommand, k)}
    IN  IF hits = {} THEN "general"
        ELSE Categories[CHOOSE i \in hits : \A j \in hits : i <= j].category

\* "my system is slow and I need to optimize"
SlowQuery ==
    << 109, 121, 32, 115, 121, 115, 116, 101, 109, 32, 105, 115, 32, 115, 108, 111, 119, 32, 97, 110, 100, 32, 73, 32, 110, 101, 101, 100, 32, 116, 111, 32, 111, 112, 116, 105, 109, 105, 122, 101 >>
\* three of the words of a query: the third optimization keyword, the first
\* file keyword, and "hello"
WordSlow == << 1705, 1606, 1583 >>
WordFile == << 1601, 1575, 1740, 1604 >>
WordHello == << 104, 101, 108, 108, 111 >>

\* the words a query is made of: keywords of the three tests, words that hold
\* none, replacement patterns and the placeholder itself
Words ==
    {WordSlow, WordFile, WordHello,
     << 1576, 1607, 1740, 1606, 1607 >>,        \* the first optimization keyword
     << 1581, 1584, 1601 >>,                    \* the third file keyword
     << 1588, 1576, 1705, 1607 >>,              \* the first network keyword
     << 72, 69, 76, 76, 79 >>,                  \* HELLO
     << DOLLAR, AMPERSAND >>,                   \* $&
     << DOLLAR, DOLLAR >>,                      \* $$
     << DOLLAR, BACKTICK >>,                    \* $`
     << DOLLAR, APOSTROPHE >>,                  \* $'
     Placeholder}                               \* {query}

\* a query has at most MaxWords words
MaxWords == 2

\* the words ws with one space between them
Joined(ws) ==
    Flatten([i \in 1..(2 * Len(ws) - 1) |->
                IF i % 2 = 1 THEN ws[(i + 1) \div 2] ELSE << SPACE >>],
            1, 2 * Len(ws) - 1)

Queries ==
    {SlowQuery} \cup
    UNION {{Joined(ws) : ws \in [1..n -> Words]} : n \in 1..MaxWords}

\* One call of the engine on a fresh page; intent is the local variable of
\* processQuery.
CallProcessQuery(query) ==
    /\ ret.op = "init"
    /\ ret' = [op |-> "processQuery", query |-> query, intent |-> Intent(query),
               response |-> ProcessQuery(query)]
    /\ UNCHANGED << profiles, userSettings, localStorage, now, written, refLog,
                    added, calls,
                    runs, systemStatus, alerts, monitorTicks,
                    exchanges, aiHistory, races, retry >>

CallCategorizeCommand(command) ==
    /\ ret.op = "init"
    /\ ret' = [op |-> "categorizeCommand", query |-> command,
               category |-> CategorizeCommand(command)]
    /\ UNCHANGED << profiles, userSettings, localStorage, now, written, refLog,
                    added, calls,
                    runs, systemStatus, alerts, monitorTicks,
                    exchanges, aiHistory, races, retry >>

NextAssistant ==
    \/ \E query \in Queries : CallProcessQuery(query)
    \/ \E command \in Queries : CallCategorizeCommand(command)

SpecAssistant == Init /\ [][NextAssistant]_vars

(***************************************************************************)
(* Assistant Template Engine: properties                                   *)
(***************************************************************************)
\* C13: the classification of "my system is slow and I need to optimize" is
\* system_optimization (optimization for categorizeCommand), and the
\* classification of "hello" is general.
C13_ClassifiesTheTwoQueries ==
    /\ (ret.op = "processQuery" /\ ret.query = SlowQuery)
          => ret.intent = "system_optimization"
    /\ (ret.op = "categorizeCommand" /\ ret.query = SlowQuery)
          => ret.category = "optimization"
    /\ (ret.op = "processQuery" /\ ret.query = WordHello) => ret.intent = "general"
    /\ (ret.op = "categorizeCommand" /\ ret.query = WordHello)
          => ret.category = "general"

\* a query, letter case ignored, holds one of the keywords
HoldsAny(query, keywords) ==
    \E k \in keywords : Includes(ToLowerCase(query), ToLowerCase(k))

\* C14: intent priority of processQuery: a query that holds an optimization
\* keyword is system_optimization whatever else it holds; else one that holds
\* a file keyword is file_management; else one that holds a network keyword is
\* network; else the intent is general.
C14_IntentPriority ==
    ret.op = "processQuery" =>
        ret.intent =
            IF HoldsAny(ret.query, OptimizationKeywords) THEN "system_optimization"
            ELSE IF HoldsAny(ret.query, FileKeywords) THEN "file_management"
            ELSE IF HoldsAny(ret.query, NetworkKeywords) THEN "network"
            ELSE "general"

\* C14 witness: a query that holds a file keyword and then an optimization
\* keyword was classified as system_optimization.
C14_Witness ==
    /\ ret.op = "processQuery"
    /\ ret.query = Joined(<< WordFile, WordSlow >>)
    /\ ret.intent = "system_optimization"

\* the template with its first placeholder replaced by the query as it is
Verbatim(template, query) ==
    LET p == IndexOf(template, Placeholder)
    IN  SubSeq(template, 1, p - 1) \o query
        \o SubSeq(template, p + Len(Placeholder), Len(template))

\* C15: the rendered response is the chosen template with its first {query}
\* replaced by the query text verbatim, every other part unchanged, also for
\* a query that holds {query} or replacement patterns such as $& or $$.
C15_QueryInsertedVerbatim ==
    ret.op = "processQuery" =>
        ret.response = Verbatim(Templates[ret.intent], ret.query)

(***************************************************************************)
(* Operation Simulator: simulateSystemOperation                            *)
(*                                                                         *)
(* An invocation runs up to its first await when it is called, and then    *)
(* from one await to the next each time its delay timer fires.  Of the     *)
(* result success, executionTime, log and freedMemory are kept; the other  *)
(* random counters (threatsFound, ...) are left out.                       *)
(*                                                                         *)
(* runSystemOperation awaits the promise of an invocation: its             *)
(* continuation (updateOperationResult, then trackEvent) runs as a         *)
(* microtask of the step that resolves the promise, before any other timer *)
(* or handler.                                                             *)
(***************************************************************************)
Operations ==
    [memory_optimization |->
        [name |-> "Memory Optimization",
         steps |-> << "Checking processes", "Clearing cache",
                      "Reallocating memory", "Completed" >>,
         duration |-> 3000],
     security_scan |->
        [name |-> "Security Scan",
         steps |-> << "Scanning system files", "Checking registry",
                      "Analyzing network", "Generating report", "Completed" >>,
         duration |-> 5000],
     troubleshoot |->
        [name |-> "System Troubleshooting",
         steps |-> << "Diagnosing problem", "Checking logs", "Finding solution",
                      "Applying settings", "Completed" >>,
         duration |-> 4000],
     disk_cleanup |->
        [name |-> "Disk Cleanup",
         steps |-> << "Scanning for temp files", "Analyzing disk usage",
                      "Removing junk files", "Optimizing storage", "Completed" >>,
         duration |-> 6000],
     registry_scan |->
        [name |-> "Registry Scan",
         steps |-> << "Scanning registry", "Finding errors", "Creating backup",
                      "Fixing issues", "Completed" >>,
         duration |-> 4500]]

OperationTypes == DOMAIN Operations

\* operations[operationType] || operations.memory_optimization, for a type
\* that operations[...] does not find on Object.prototype
Operation(operationType) ==
    IF operationType \in OperationTypes
    THEN Operations[operationType]
    ELSE Operations.memory_optimization

\* the log entry of step i (from 0), with progress = (i + 1) / steps.length *
\* 100 counted from 0 instead of 1
LogEntryProgressFromZero(operation, i, t) ==
    [step |-> operation.steps[i + 1],
     progress |-> (i * 100) \div Len(operation.steps),
     timestamp |-> t,
     status |-> IF i = Len(operation.steps) - 1 THEN "completed" ELSE "in_progress"]

\* the log entry of step i (from 0); the step counts are 4 and 5, for which
\* (i + 1) / steps.length * 100 is a whole number
LogEntry(operation, i, t) ==
    [step |-> operation.steps[i + 1],
     progress |-> ((i + 1) * 100) \div Len(operation.steps),
     timestamp |-> t,
     status |-> IF i = Len(operation.steps) - 1 THEN "completed" ELSE "in_progress"]

NoResults == [kind |-> "none"]

\* freedMemory of the results: Math.floor(Math.random() * 500) + 100 for the
\* type memory_optimization itself, 0 for every other type
FreedMemory(operationType) ==
    IF operationType = "memory_optimization" THEN {100, 599} ELSE {0}

\* updateOperationResult that does not compute ram.usage anew
UpdateOperationResultKeepingUsage(status, result) ==
    IF result.success /\ result.freedMemory > 0
    THEN [status EXCEPT !.ramFree = status.ramFree + result.freedMemory]
    ELSE status

\* AppState.systemStatus after updateOperationResult(result): ram.free +=
\* freedMemory / 1024 (GB), ram.usage = (total - free) / total * 100, of which
\* the whole percents are kept (rounded down)
UpdateOperationResult(status, result) ==
    IF result.success /\ result.freedMemory > 0
    THEN LET free == status.ramFree + result.freedMemory
         IN  [status EXCEPT !.ramFree = free,
                            !.ramUsage = ((status.ramTotal - free) * 100)
                                            \div status.ramTotal]
    ELSE status

\* Promise.race([promise, timer]) of a Utils.timeoutPromise call on the
\* promise of invocation p, which is in the state `run`: as long as the race
\* is pending it settles like the promise as soon as the promise has settled
\* (a rejected invocation has thrown a TypeError)
Raced(race, p, run) ==
    IF race.run # p \/ race.state # "pending" \/ run.state = "awaiting"
    THEN race
    ELSE IF run.state = "resolved"
         THEN [race EXCEPT !.state = "fulfilled", !.value = run.results,
                           !.first = "promise"]
         ELSE [race EXCEPT !.state = "rejected", !.value = [error |-> "TypeError"],
                           !.first = "promise"]

\* What follows the await of invocation r in its caller, in the step that
\* settles it: nothing for a direct call of simulateSystemOperation, for
\* runSystemOperation updateOperationResult(result) and
\* trackEvent('system_operation_completed', {type, success}).  The races on
\* its promise settle in the same step.
AfterAwait(r) ==
    /\ races' = [k \in 1..Len(races) |-> Raced(races[k], r, runs'[r])]
    /\ IF runs[r].caller = "runSystemOperation" /\ runs'[r].state = "resolved"
       THEN /\ systemStatus' = UpdateOperationResult(systemStatus, runs'[r].results)
            /\ localStorage' =
                  TrackEvent(localStorage, "system_operation_completed",
                             [type |-> runs[r].operationType,
                              success |-> runs'[r].results.success], now)
            /\ ret' = [op |-> "updateOperationResult", before |-> systemStatus,
                       result |-> runs'[r].results]
       ELSE UNCHANGED << systemStatus, localStorage, ret >>

\* at most MaxRuns invocations on one page
MaxRuns == 2

\* the types an invocation is given: the configured ones, one that is
\* nowhere, and a key that operations[...] finds on Object.prototype
OperationArgs == OperationTypes \cup {"defrag"} \cup InheritedKeys

\* simulateSystemOperation(operationType) up to its first await.  For an
\* inherited key operations[operationType] is a function of Object.prototype:
\* it has no steps, reading operation.steps.length throws and the promise is
\* rejected.
StartOperation(operationType) ==
    /\ Len(runs) < MaxRuns
    /\ runs' = Append(runs,
          IF operationType \in InheritedKeys
          THEN [operationType |-> operationType, i |-> 0, log |-> << >>,
                state |-> "rejected", results |-> NoResults,
                caller |-> "simulateSystemOperation"]
          ELSE [operationType |-> operationType, i |-> 0,
                log |-> << LogEntry(Operation(operationType), 0, now) >>,
                state |-> "awaiting", results |-> NoResults,
                caller |-> "simulateSystemOperation"])
    /\ UNCHANGED << profiles, userSettings, localStorage, now, ret, written, refLog,
                    added, calls, systemStatus, alerts, monitorTicks,
                    exchanges, aiHistory, races, retry >>

\* DelayResolves with one log for all invocations: the entry is pushed to
\* the log of the first invocation
DelayResolvesIntoFirstLog(r) ==
    /\ r \in 1..Len(runs)
    /\ runs[r].state = "awaiting"
    /\ LET operation == Operation(runs[r].operationType)
           i == runs[r].i + 1
       IN  IF i < Len(operation.steps)
           THEN runs' = [[runs EXCEPT ![r].i = i]
                            EXCEPT ![1].log = Append(@, LogEntry(operation, i, now))]
           ELSE \E success \in BOOLEAN :
                \E freedMemory \in FreedMemory(runs[r].operationType) :
                   runs' = [runs EXCEPT ![r].state = "resolved",
                                        ![r].results =
                                            [success |-> success,
                                             executionTime |-> operation.duration,
                                             log |-> runs[1].log,
                                             freedMemory |-> freedMemory]]
    /\ AfterAwait(r)
    /\ UNCHANGED << profiles, userSettings, now, written, refLog,
                    added, calls, alerts, monitorTicks,
                    exchanges, aiHistory, retry >>

\* The delay timer of invocation r fires: i++, then either the next step is
\* logged and awaited, or the loop ends and the promise resolves with the
\* results (success = Math.random() > 0.1) and the caller goes on.
DelayResolves(r) ==
    /\ r \in 1..Len(runs)
    /\ runs[r].state = "awaiting"
    /\ LET operation == Operation(runs[r].operationType)
           i == runs[r].i + 1
       IN  IF i < Len(operation.steps)
           THEN runs' = [runs EXCEPT ![r].i = i,
                                     ![r].log = Append(@, LogEntry(operation, i, now))]
           ELSE \E success \in BOOLEAN :
                \E freedMemory \in FreedMemory(runs[r].operationType) :
                   runs' = [runs EXCEPT ![r].state = "resolved",
                                        ![r].results =
                                            [success |-> success,
                                             executionTime |-> operation.duration,
                                             log |-> runs[r].log,
                                             freedMemory |-> freedMemory]]
    /\ AfterAwait(r)
    /\ UNCHANGED << profiles, userSettings, now, written, refLog,
                    added, calls, alerts, monitorTicks,
                    exchanges, aiHistory, retry >>

\* runSystemOperation(operationType) up to its await of
\* ArkaUtils.simulateSystemOperation(operationType); a rejection ends it in
\* its catch block.
RunSystemOperation(operationType) ==
    /\ Len(runs) < MaxRuns
    /\ runs' = Append(runs,
          IF operationType \in InheritedKeys
          THEN [operationType |-> operationType, i |-> 0, log |-> << >>,
                state |-> "rejected", results |-> NoResults,
                caller |-> "runSystemOperation"]
          ELSE [operationType |-> operationType, i |-> 0,
                log |-> << LogEntry(Operation(operationType), 0, now) >>,
                state |-> "awaiting", results |-> NoResults,
                caller |-> "runSystemOperation"])
    /\ UNCHANGED << profiles, userSettings, localStorage, now, ret, written, refLog,
                    added, calls, systemStatus, alerts, monitorTicks,
                    exchanges, aiHistory, races, retry >>

NextOperation ==
    \/ \E operationType \in OperationArgs : StartOperation(operationType)
    \/ \E r \in 1..MaxRuns : DelayResolves(r)

SpecOperation == Init /\ [][NextOperation]_vars

\* the same, with every pending timer firing at some time
SpecOperationTimersFire ==
    /\ Init
    /\ [][NextOperation]_vars
    /\ \A r \in 1..MaxRuns : WF_vars(DelayResolves(r))

(***************************************************************************)
(* Operation Simulator: properties                                         *)
(***************************************************************************)
\* C16: for every known operation type the call resolves with a log of as
\* many entries as the type has steps; entry i (from 0) is step i with
\* progress (i + 1) / stepCount * 100, strictly increasing and 100 at the
\* end; its status is in_progress but for the last entry, which is completed.
C16_LogFollowsTheSteps ==
    \A r \in 1..Len(runs) :
        (runs[r].state = "resolved" /\ runs[r].operationType \in OperationTypes) =>
            LET steps == Operations[runs[r].operationType].steps
                log == runs[r].results.log
            IN  /\ Len(log) = Len(steps)
                /\ \A k \in 1..Len(log) :
                      /\ log[k].step = steps[k]
                      /\ log[k].progress * Len(steps) = k * 100
                      /\ log[k].status =
                            IF k = Len(log) THEN "completed" ELSE "in_progress"
                /\ \A k \in 1..(Len(log) - 1) : log[k].progress < log[k + 1].progress
                /\ log[Len(log)].progress = 100

\* C16 witness: a memory_optimization call has resolved with four entries,
\* the last one completed at 100.
C16_Witness ==
    \E r \in 1..Len(runs) :
        /\ runs[r].state = "resolved"
        /\ runs[r].operationType = "memory_optimization"
        /\ Len(runs[r].results.log) = 4
        /\ runs[r].results.log[4].status = "completed"
        /\ runs[r].results.log[4].progress = 100

\* C17: for every operation type string, known or unknown, a call resolves
\* at some time (timers firing) and never rejects; an unknown type runs the
\* step list and duration of memory_optimization.
C17_ResolvesNeverRejects ==
    /\ [](\A r \in 1..Len(runs) : runs[r].state # "rejected")
    /\ [](\A r \in 1..Len(runs) :
            (runs[r].state = "resolved" /\ runs[r].operationType \notin OperationTypes) =>
                /\ runs[r].results.executionTime = Operations.memory_optimization.duration
                /\ [k \in 1..Len(runs[r].results.log) |-> runs[r].results.log[k].step]
                      = Operations.memory_optimization.steps)
    /\ \A r \in 1..MaxRuns :
          (Len(runs) >= r) ~> (Len(runs) >= r /\ runs[r].state = "resolved")

\* the steps a log holds, in its order
StepsOf(log) == [k \in 1..Len(log) |-> log[k].step]

\* C18: concurrent runs are independent: whatever the interleaving of the
\* timers of the invocations, the log of each holds its own steps in its own
\* order and no entry of another run, each resolves with its own complete
\* log, and the timer step of a pending invocation can always be taken.
C18_RunsAreIndependent ==
    \A r \in 1..Len(runs) :
        LET steps == Operation(runs[r].operationType).steps
        IN  /\ runs[r].state = "awaiting" =>
                  /\ StepsOf(runs[r].log) = SubSeq(steps, 1, runs[r].i + 1)
                  /\ ENABLED DelayResolves(r)
            /\ runs[r].state = "resolved" => StepsOf(runs[r].results.log) = steps

\* C18 witness: of two invocations of different types, started back-to-back,
\* the second has resolved with its log while the first is still at its third
\* step.
C18_Witness ==
    /\ Len(runs) = 2
    /\ runs[1].operationType = "security_scan"
    /\ runs[2].operationType = "memory_optimization"
    /\ runs[1].state = "awaiting" /\ runs[1].i = 2
    /\ runs[2].state = "resolved"

(***************************************************************************)
(* Alert Evaluator: the monitoring interval, checkAlerts, showAlert        *)
(*                                                                         *)
(* alerts is the sequence of the alerts appended to alertsContainer; their *)
(* removal after 10 seconds is left out.  Usage and temperature are whole  *)
(* numbers.                                                                *)
(***************************************************************************)
CPU_USAGE_LIMIT == 85
RAM_USAGE_LIMIT == 90
CPU_TEMPERATURE_LIMIT == 75

CpuUsageAlert == [title |-> "High CPU Usage Alert", type |-> "warning"]
RamUsageAlert == [title |-> "High RAM Usage Alert", type |-> "critical"]
CpuTemperatureAlert == [title |-> "High CPU Temperature", type |-> "warning"]
HighLoadAlert == [title |-> "Simulated high load", type |-> "warning"]

\* showAlert(title, message, type): nothing unless notifications are enabled
ShowAlert(list, alert, notifications) ==
    IF ~notifications THEN list ELSE Append(list, alert)

\* checkAlerts with >= in place of >
CheckAlertsAtOrAbove(list, status, notifications) ==
    LET cpu == IF status.cpuUsage >= CPU_USAGE_LIMIT
               THEN ShowAlert(list, CpuUsageAlert, notifications) ELSE list
        ram == IF status.ramUsage >= RAM_USAGE_LIMIT
               THEN ShowAlert(cpu, RamUsageAlert, notifications) ELSE cpu
    IN  IF status.cpuTemperature >= CPU_TEMPERATURE_LIMIT
        THEN ShowAlert(ram, CpuTemperatureAlert, notifications) ELSE ram

\* checkAlerts that shows no alert whose title the container already holds
CheckAlertsWithoutRepeats(list, status, notifications) ==
    LET Held(l, alert) == \E k \in 1..Len(l) : l[k] = alert
        cpu == IF status.cpuUsage > CPU_USAGE_LIMIT /\ ~Held(list, CpuUsageAlert)
               THEN ShowAlert(list, CpuUsageAlert, notifications) ELSE list
        ram == IF status.ramUsage > RAM_USAGE_LIMIT /\ ~Held(cpu, RamUsageAlert)
               THEN ShowAlert(cpu, RamUsageAlert, notifications) ELSE cpu
    IN  IF status.cpuTemperature > CPU_TEMPERATURE_LIMIT
           /\ ~Held(ram, CpuTemperatureAlert)
        THEN ShowAlert(ram, CpuTemperatureAlert, notifications) ELSE ram

\* checkAlerts() on AppState.systemStatus = status: the alerts after it
CheckAlerts(list, status, notifications) ==
    LET cpu == IF status.cpuUsage > CPU_USAGE_LIMIT
               THEN ShowAlert(list, CpuUsageAlert, notifications) ELSE list
        ram == IF status.ramUsage > RAM_USAGE_LIMIT
               THEN ShowAlert(cpu, RamUsageAlert, notifications) ELSE cpu
    IN  IF status.cpuTemperature > CPU_TEMPERATURE_LIMIT
        THEN ShowAlert(ram, CpuTemperatureAlert, notifications) ELSE ram

\* values that updateSystemStatus can draw: cpu.usage in [10, 90),
\* ram.usage in [20, 80), cpu.temperature in [40, 60)
\* and ram.free = 16 - Math.floor(Math.random() * 10 + 6), from 1 to 10 GB
MonitoredStatus ==
    [cpuUsage : {50, 85, 86}, cpuTemperature : {40, 59}, ramUsage : {20, 79},
     ramTotal : {16 * 1024}, ramFree : {1 * 1024, 10 * 1024}]

\* snapshots written to ArkaApp.state.systemStatus from the console
Snapshots ==
    [cpuUsage : {85, 90}, cpuTemperature : {50, 75, 76}, ramUsage : {50, 90, 91},
     ramTotal : {16 * 1024}, ramFree : {8 * 1024}]

\* at most MaxTicks firings of the monitoring interval
MaxTicks == 3

\* the callback with checkAlerts() before updateSystemStatus(): the alerts are
\* evaluated on the status that the tick replaces
MonitoringTickCheckingFirst(status) ==
    LET breach == systemStatus.cpuUsage > CPU_USAGE_LIMIT
        goesOn == ret.op = "monitoringTick" /\ ret.streak > 0
    IN  /\ monitorTicks < MaxTicks
        /\ monitorTicks' = monitorTicks + 1
        /\ systemStatus' = status
        /\ alerts' = CheckAlerts(alerts, systemStatus, userSettings.notifications)
        /\ ret' = [op |-> "monitoringTick", status |-> systemStatus,
                   notifications |-> userSettings.notifications,
                   before |-> Len(alerts),
                   breachedBefore |->
                       \/ systemStatus.ramUsage > RAM_USAGE_LIMIT
                       \/ systemStatus.cpuTemperature > CPU_TEMPERATURE_LIMIT,
                   streak |-> IF ~breach THEN 0
                              ELSE IF goesOn THEN ret.streak + 1 ELSE 1,
                   streakFrom |-> IF breach /\ goesOn THEN ret.streakFrom
                                  ELSE Len(alerts)]
        /\ UNCHANGED << profiles, userSettings, localStorage, now, written, refLog,
                        added, calls, runs,
                        exchanges, aiHistory, races, retry >>

\* The callback of the monitoring interval: updateSystemStatus(),
\* updateCharts(), checkAlerts().  streak counts the ticks in a row, this one
\* included, whose cpu.usage is over the limit; streakFrom is the number of
\* alerts before the first of them; breachedBefore tells whether the status
\* that the tick replaces was over the RAM or the temperature limit.
MonitoringTick(status) ==
    LET breach == status.cpuUsage > CPU_USAGE_LIMIT
        goesOn == ret.op = "monitoringTick" /\ ret.streak > 0
    IN  /\ monitorTicks < MaxTicks
        /\ monitorTicks' = monitorTicks + 1
        /\ systemStatus' = status
        /\ alerts' = CheckAlerts(alerts, status, userSettings.notifications)
        /\ ret' = [op |-> "monitoringTick", status |-> status,
                   notifications |-> userSettings.notifications,
                   before |-> Len(alerts),
                   breachedBefore |->
                       \/ systemStatus.ramUsage > RAM_USAGE_LIMIT
                       \/ systemStatus.cpuTemperature > CPU_TEMPERATURE_LIMIT,
                   streak |-> IF ~breach THEN 0
                              ELSE IF goesOn THEN ret.streak + 1 ELSE 1,
                   streakFrom |-> IF breach /\ goesOn THEN ret.streakFrom
                                  ELSE Len(alerts)]
        /\ UNCHANGED << profiles, userSettings, localStorage, now, written, refLog,
                        added, calls, runs,
                        exchanges, aiHistory, races, retry >>

\* ArkaApp.state.systemStatus = snapshot, from the console
SetSystemStatus(snapshot) ==
    /\ Called
    /\ systemStatus' = snapshot
    /\ ret' = [op |-> "setSystemStatus"]
    /\ UNCHANGED << profiles, userSettings, localStorage, now, written, refLog,
                    added, runs, alerts, monitorTicks,
                    exchanges, aiHistory, races, retry >>

\* checkAlerts(), called on the status as it is
CallCheckAlerts ==
    /\ Called
    /\ alerts' = CheckAlerts(alerts, systemStatus, userSettings.notifications)
    /\ ret' = [op |-> "checkAlerts", status |-> systemStatus,
               notifications |-> userSettings.notifications,
               before |-> Len(alerts)]
    /\ UNCHANGED << profiles, userSettings, localStorage, now, written, refLog,
                    added, runs, systemStatus, monitorTicks,
                    exchanges, aiHistory, races, retry >>

\* ArkaApp.debug.simulateHighLoad()
SimulateHighLoad ==
    /\ Called
    /\ systemStatus' = [systemStatus EXCEPT !.cpuUsage = 95, !.ramUsage = 98]
    /\ alerts' = ShowAlert(alerts, HighLoadAlert, userSettings.notifications)
    /\ ret' = [op |-> "simulateHighLoad"]
    /\ UNCHANGED << profiles, userSettings, localStorage, now, written, refLog,
                    added, runs, monitorTicks,
                    exchanges, aiHistory, races, retry >>

NextAlerts ==
    \/ \E status \in MonitoredStatus : MonitoringTick(status)
    \/ \E snapshot \in Snapshots : SetSystemStatus(snapshot)
    \/ CallCheckAlerts
    \/ SimulateHighLoad
    \/ \E v \in BOOLEAN : ToggleSetting("notificationsToggle", v)

SpecAlerts == Init /\ [][NextAlerts]_vars

(***************************************************************************)
(* Alert Evaluator: properties                                             *)
(***************************************************************************)
\* the alerts that the last call appended
Emitted == SubSeq(alerts, ret.before + 1, Len(alerts))

\* how many of the alerts of a list are the given one
CountOf(list, alert) == Cardinality({k \in 1..Len(list) : list[k] = alert})

\* C19: with notifications enabled, checkAlerts emits exactly one alert per
\* breached threshold and none otherwise: a warning iff cpu.usage > 85, a
\* critical iff ram.usage > 90, a warning iff cpu.temperature > 75, a value
\* equal to its threshold emitting nothing.
C19_OneAlertPerBreach ==
    (ret.op \in {"checkAlerts", "monitoringTick"} /\ ret.notifications) =>
        LET cpu == IF ret.status.cpuUsage > 85 THEN 1 ELSE 0
            ram == IF ret.status.ramUsage > 90 THEN 1 ELSE 0
            temperature == IF ret.status.cpuTemperature > 75 THEN 1 ELSE 0
        IN  /\ CountOf(Emitted, CpuUsageAlert) = cpu
            /\ CountOf(Emitted, RamUsageAlert) = ram
            /\ CountOf(Emitted, CpuTemperatureAlert) = temperature
            /\ Len(Emitted) = cpu + ram + temperature

\* C19 witness: on cpu.usage 90, temperature 50, ram.usage 50 checkAlerts has
\* emitted the CPU usage warning and nothing else.
C19_Witness ==
    /\ ret.op = "checkAlerts"
    /\ ret.notifications
    /\ ret.status.cpuUsage = 90
    /\ ret.status.cpuTemperature = 50
    /\ ret.status.ramUsage = 50
    /\ Emitted = << CpuUsageAlert >>

\* C20: alert evaluation keeps no state between ticks: every monitoring tick
\* whose snapshot breaches a threshold emits the alert of that threshold, so a
\* breach that lasts n ticks in a row has emitted n alerts.
C20_EveryBreachingTickAlerts ==
    ret.op = "monitoringTick" =>
        /\ ret.status.cpuUsage > 85 => CountOf(Emitted, CpuUsageAlert) = 1
        /\ ret.status.ramUsage > 90 => CountOf(Emitted, RamUsageAlert) = 1
        /\ ret.status.cpuTemperature > 75 => CountOf(Emitted, CpuTemperatureAlert) = 1
        /\ CountOf(SubSeq(alerts, ret.streakFrom + 1, Len(alerts)), CpuUsageAlert)
              = ret.streak

\* C20 as amended: the same while notifications are enabled.
C20_EveryBreachingTickAlertsWhenEnabled ==
    (ret.op = "monitoringTick" /\ ret.notifications) =>
        /\ ret.status.cpuUsage > 85 => CountOf(Emitted, CpuUsageAlert) = 1
        /\ ret.status.ramUsage > 90 => CountOf(Emitted, RamUsageAlert) = 1
        /\ ret.status.cpuTemperature > 75 => CountOf(Emitted, CpuTemperatureAlert) = 1
        /\ CountOf(SubSeq(alerts, ret.streakFrom + 1, Len(alerts)), CpuUsageAlert)
              = ret.streak

\* C20 witness: the third of three ticks in a row over the CPU limit, with
\* notifications enabled, has emitted the third CPU usage warning.
C20_Witness ==
    /\ ret.op = "monitoringTick"
    /\ ret.notifications
    /\ ret.streak = 3
    /\ CountOf(alerts, CpuUsageAlert) = 3

(***************************************************************************)
(* AI Assistant: sendAIMessage, generateAIResponse, renderChatHistory       *)
(*                                                                         *)
(* An invocation of sendAIMessage runs up to its first await when the      *)
(* message is sent, up to the await inside generateAIResponse when its     *)
(* first delay timer fires (1000 to 3000 ms), and to its end when the      *)
(* second one fires (500 to 1500 ms).  The delays of different invocations *)
(* are drawn independently, so that the timers of two invocations sent     *)
(* within 3 seconds fire in any order.  Of the messages appended to        *)
(* chatMessages nothing is kept.                                           *)
(***************************************************************************)
\* the words generateAIResponse looks for: slow, game, security (the Persian
\* alternatives are left out)
ResponseKeywords ==
    [performance |-> << 115, 108, 111, 119 >>,
     gaming |-> << 103, 97, 109, 101 >>,
     security |-> << 115, 101, 99, 117, 114, 105, 116, 121 >>]

\* What generateAIResponse(message) returns on AppState.systemStatus = status
\* when Math.floor(Math.random() * responses.length) is pick: one of three
\* reports, with the values of the status it quotes, or one of the eight
\* general responses.
GenerateAIResponse(message, status, pick) ==
    LET lowerMessage == ToLowerCase(message)
    IN  IF Includes(lowerMessage, ResponseKeywords.performance)
        THEN [kind |-> "performance", cpuUsage |-> status.cpuUsage,
              ramUsage |-> status.ramUsage, temperature |-> status.cpuTemperature]
        ELSE IF Includes(lowerMessage, ResponseKeywords.gaming)
        THEN [kind |-> "gaming", temperature |-> status.cpuTemperature]
        ELSE IF Includes(lowerMessage, ResponseKeywords.security)
        THEN [kind |-> "security"]
        ELSE [kind |-> "general", index |-> pick]

\* chatInput.value.trim() of the messages sent: "hello", "game", and the
\* query "my system is slow and I need to optimize"
ChatMessages == {WordHello, ResponseKeywords.gaming, SlowQuery}

NoEntry == [kind |-> "none"]

\* at most MaxExchanges invocations of sendAIMessage are pending or complete
MaxExchanges == 2

\* sendAIMessage() on chatInput.value = message, which is not blank, up to its
\* await delay(1000 + Math.random() * 2000)
SendAIMessage(message) ==
    /\ added + Cardinality({x \in 1..Len(exchanges) : exchanges[x].entry = NoEntry})
          < MaxExchanges
    /\ exchanges' = Append(exchanges,
          [message |-> message, pc |-> "typing", entry |-> NoEntry,
           rendered |-> << >>, tracked |-> 0, toast |-> "none"])
    /\ UNCHANGED << profiles, userSettings, localStorage, now, ret, written, refLog,
                    added, calls, runs, systemStatus, alerts, monitorTicks,
                    aiHistory, races, retry >>

\* The first delay timer of invocation x fires: the typing indicator is
\* removed and generateAIResponse(message) is called, which awaits
\* delay(500 + Math.random() * 1000).
TypingDelayElapses(x) ==
    /\ x \in 1..Len(exchanges)
    /\ exchanges[x].pc = "typing"
    /\ exchanges' = [exchanges EXCEPT ![x].pc = "generating"]
    /\ UNCHANGED << profiles, userSettings, localStorage, now, ret, written, refLog,
                    added, calls, runs, systemStatus, alerts, monitorTicks,
                    aiHistory, races, retry >>

\* renderChatHistory(): the entries shown, AppState.aiHistory.slice(0, 10)
RenderChatHistory(history) ==
    SubSeq(history, 1, IF Len(history) > 10 THEN 10 ELSE Len(history))

\* The delay timer inside generateAIResponse fires for invocation x: the
\* response is returned and sendAIMessage goes on to its end.  In the first
\* block the entry is added to the chat history and renderChatHistory shows
\* AppState.aiHistory, which nothing has assigned since initializeAIAssistant.
\* The second block reads `category`, a const of the first block that is not
\* in scope there: evaluating the argument of trackEvent throws a
\* ReferenceError before trackEvent is called, and the catch block shows the
\* toast 'Error communicating with AI'.
ResponseArrives(x) ==
    /\ x \in 1..Len(exchanges)
    /\ exchanges[x].pc = "generating"
    /\ \E pick \in {0, 7} :
       \E aiResponse \in {GenerateAIResponse(exchanges[x].message, systemStatus, pick)} :
       \E category \in {CategorizeCommand(exchanges[x].message)} :
       \E l \in {LoadFromStorage(localStorage, CHAT_HISTORY, now)} :
       \E newEntry \in {NewEntry(exchanges[x].message, aiResponse, category, now,
                                 added + 1)} :
       \E history \in {Unshifted(ItemsOrEmpty(l.data), newEntry)} :
          /\ added' = added + 1
          /\ localStorage' = SaveToStorage(l.store, CHAT_HISTORY, List(history),
                                           FALSE, now)
          /\ ret' = [op |-> "sendAIMessage", entry |-> newEntry]
          /\ refLog' = SubSeq(<< newEntry >> \o refLog, 1,
                              IF Len(refLog) + 1 > HISTORY_LIMIT
                              THEN HISTORY_LIMIT ELSE Len(refLog) + 1)
          /\ exchanges' = [exchanges EXCEPT
                              ![x].pc = "caught",
                              ![x].entry = newEntry,
                              ![x].rendered = RenderChatHistory(aiHistory),
                              ![x].tracked = 0,
                              ![x].toast = "Error communicating with AI"]
    /\ UNCHANGED << profiles, userSettings, now, written, calls, runs, systemStatus,
                    alerts, monitorTicks, aiHistory, races, retry >>

NextExchange ==
    \/ \E message \in ChatMessages : SendAIMessage(message)
    \/ \E x \in 1..MaxExchanges : TypingDelayElapses(x)
    \/ \E x \in 1..MaxExchanges : ResponseArrives(x)
    \/ SimulateHighLoad
    \/ Reload

SpecExchange == Init /\ [][NextExchange]_vars

(***************************************************************************)
(* AI Assistant: properties                                                *)
(***************************************************************************)
\* the invocations that have added their entry to the chat history
Appended == {x \in 1..Len(exchanges) : exchanges[x].entry # NoEntry}

\* C26: every sendAIMessage exchange that appends its entry to the chat
\* history runs to the end of its normal path: exactly one ai_message_sent
\* event is recorded for it and the error toast is not shown.
C26_AppendedExchangeEndsNormally ==
    \A x \in Appended :
        /\ exchanges[x].pc = "done"
        /\ exchanges[x].tracked = 1
        /\ exchanges[x].toast = "none"

\* C27: after every completed chat exchange the history that
\* renderChatHistory displays, AppState.aiHistory, is the persisted chat log,
\* the new entry first.
C27_ShownHistoryIsPersistedLog ==
    (ret.op = "sendAIMessage") =>
        /\ aiHistory = PersistedLog
        /\ aiHistory # << >>
        /\ aiHistory[1] = ret.entry

\* the index in the persisted log of the entry of invocation x, 0 when the
\* log does not hold it
IndexInLog(x) ==
    LET at == {k \in 1..Len(PersistedLog) : PersistedLog[k] = exchanges[x].entry}
    IN  IF at = {} THEN 0 ELSE CHOOSE k \in at : TRUE

\* C30: the chat history follows the send order under overlapping exchanges:
\* when A was sent before B while A was pending and both have completed, the
\* entry of B is at a smaller index of the log than the entry of A.
C30_LogFollowsSendOrder ==
    \A a, b \in Appended :
        (a < b /\ IndexInLog(a) > 0 /\ IndexInLog(b) > 0)
            => IndexInLog(b) < IndexInLog(a)

(***************************************************************************)
(* System status: the monitoring interval, completions of system           *)
(* operations, the debug call, a chat exchange and a profile activation    *)
(* on one page                                                             *)
(***************************************************************************)
\* the snapshots drawn here: those of MonitoredStatus with one value of
\* cpu.usage and of cpu.temperature
RamDraws == {s \in MonitoredStatus : s.cpuUsage = 50 /\ s.cpuTemperature = 40}

NextStatus ==
    \/ \E status \in RamDraws : MonitoringTick(status)
    \/ runs = << >> /\ RunSystemOperation("memory_optimization")
    \/ \E r \in 1..MaxRuns : DelayResolves(r)
    \/ calls = 0 /\ SimulateHighLoad
    \/ calls = 0 /\ ActivateProfile("gaming")
    \/ exchanges = << >> /\ SendAIMessage(SlowQuery)
    \/ \E x \in 1..MaxExchanges : TypingDelayElapses(x)
    \/ \E x \in 1..MaxExchanges : ResponseArrives(x)

SpecStatus == Init /\ [][NextStatus]_vars

\* the monitoring interval and system operations alone
NextWrites ==
    \/ \E status \in RamDraws : MonitoringTick(status)
    \/ RunSystemOperation("memory_optimization")
    \/ \E r \in 1..MaxRuns : DelayResolves(r)

SpecWrites == Init /\ [][NextWrites]_vars

\* C21: AppState.systemStatus is written only by the tick of the monitoring
\* interval: a step that is no tick (the completion of a system operation,
\* simulateHighLoad, a step of a chat exchange, activateProfile) changes no
\* field of it.
C21_OnlyTheTickWrites ==
    [][monitorTicks' = monitorTicks => systemStatus' = systemStatus]_vars

\* C22: writes to the system status apply in the order of the events and the
\* last write wins: after a tick the status is the snapshot that tick drew,
\* with no trace of memory freed before it in ram.free or ram.usage; after the
\* completion of an operation it is the status found, with the freed memory
\* added to ram.free and ram.usage computed from it when the operation
\* succeeded and freed memory, and unchanged otherwise.
C22_LastWriteWins ==
    /\ ret.op = "monitoringTick" => systemStatus = ret.status
    /\ ret.op = "updateOperationResult" =>
          /\ systemStatus.cpuUsage = ret.before.cpuUsage
          /\ systemStatus.cpuTemperature = ret.before.cpuTemperature
          /\ systemStatus.ramTotal = ret.before.ramTotal
          /\ IF ret.result.success /\ ret.result.freedMemory > 0
             THEN /\ systemStatus.ramFree = ret.before.ramFree + ret.result.freedMemory
                  /\ systemStatus.ramUsage =
                        ((systemStatus.ramTotal - systemStatus.ramFree) * 100)
                            \div systemStatus.ramTotal
             ELSE /\ systemStatus.ramFree = ret.before.ramFree
                  /\ systemStatus.ramUsage = ret.before.ramUsage

\* C22 witness: a tick has arrived after two memory optimizations that
\* succeeded, the second one on the status the first one left, and the status
\* is the snapshot of the tick: 10 GB free, not 10 GB and the freed memory.
C22_Witness ==
    /\ ret.op = "monitoringTick"
    /\ Len(runs) = 2
    /\ \A r \in 1..2 :
          /\ runs[r].caller = "runSystemOperation"
          /\ runs[r].state = "resolved"
          /\ runs[r].results.success
          /\ runs[r].results.freedMemory = 599
    /\ systemStatus = ret.status
    /\ systemStatus.ramFree = 10 * 1024

(***************************************************************************)
(* Chat History Manager: getByCategory, searchHistory                      *)
(***************************************************************************)
\* history.filter(entry => entry.category === category)
GetByCategory(history, category) ==
    SelectSeq(history, LAMBDA entry : entry.category = category)

\* searchHistory that looks into userInput only
SearchHistoryInUserInput(history, keyword) ==
    LET searchLower == ToLowerCase(keyword)
    IN  SelectSeq(history,
                  LAMBDA entry : Includes(ToLowerCase(entry.userInput), searchLower))

\* history.filter(entry => entry.userInput.toLowerCase().includes(searchLower)
\* || entry.aiResponse.toLowerCase().includes(searchLower))
SearchHistory(history, keyword) ==
    LET searchLower == ToLowerCase(keyword)
    IN  SelectSeq(history,
                  LAMBDA entry :
                      \/ Includes(ToLowerCase(entry.userInput), searchLower)
                      \/ Includes(ToLowerCase(entry.aiResponse), searchLower))

\* chatHistoryManager.getByCategory(category): the log is read with
\* loadFromStorage, which removes a stored log that has expired
CallGetByCategory(category) ==
    /\ Called
    /\ \E l \in {LoadFromStorage(localStorage, CHAT_HISTORY, now)} :
          /\ localStorage' = l.store
          /\ ret' = [op |-> "getByCategory", arg |-> category,
                     found |-> localStorage[CHAT_HISTORY], at |-> now,
                     returned |-> GetByCategory(ItemsOrEmpty(l.data), category)]
    /\ UNCHANGED << profiles, userSettings, now, written, refLog, added, runs,
                    systemStatus, alerts, monitorTicks, exchanges, aiHistory, races,
                    retry >>

\* chatHistoryManager.searchHistory(keyword)
CallSearchHistory(keyword) ==
    /\ Called
    /\ \E l \in {LoadFromStorage(localStorage, CHAT_HISTORY, now)} :
          /\ localStorage' = l.store
          /\ ret' = [op |-> "searchHistory", arg |-> keyword,
                     found |-> localStorage[CHAT_HISTORY], at |-> now,
                     returned |-> SearchHistory(ItemsOrEmpty(l.data), keyword)]
    /\ UNCHANGED << profiles, userSettings, now, written, refLog, added, runs,
                    systemStatus, alerts, monitorTicks, exchanges, aiHistory, races,
                    retry >>

\* the exchanges logged: "Game" / "ok", "hi" / "GAME on", "ram" / "ok"
LoggedExchanges ==
    {[userInput |-> << 71, 97, 109, 101 >>, aiResponse |-> << 111, 107 >>,
      category |-> "optimization"],
     [userInput |-> << 104, 105 >>, aiResponse |-> << 71, 65, 77, 69, 32, 111, 110 >>,
      category |-> "general"],
     [userInput |-> << 114, 97, 109 >>, aiResponse |-> << 111, 107 >>,
      category |-> "system"]}

\* the keywords searched: "game", "AM", "o", "x", "me on" and the empty string
Keywords ==
    {<< 103, 97, 109, 101 >>, << 65, 77 >>, << 111 >>, << 120 >>,
     << 109, 101, 32, 111, 110 >>, << >>}

\* at most MaxLogged entries are added before the log is read
MaxLogged == 3

NextSearch ==
    \/ \E e \in LoggedExchanges :
          added < MaxLogged /\ AddEntry(e.userInput, e.aiResponse, e.category)
    \/ \E category \in {"general", "system", "network"} : CallGetByCategory(category)
    \/ \E keyword \in Keywords : CallSearchHistory(keyword)
    \/ ClearHistory
    \/ Tick(EXPIRY_TIME + 1)

SpecSearch == Init /\ [][NextSearch]_vars

\* the same letter but for its case
SameButCase(a, b) ==
    \/ a = b
    \/ IsUpper(a) /\ b = a + 32
    \/ IsUpper(b) /\ a = b + 32

\* text holds keyword at some position, letter case ignored
HoldsIgnoringCase(text, keyword) ==
    \E i \in 1..(Len(text) - Len(keyword) + 1) :
        \A j \in 1..Len(keyword) : SameButCase(text[i + j - 1], keyword[j])

\* entry is one that the last call asks for
Wanted(entry) ==
    IF ret.op = "getByCategory" THEN entry.category = ret.arg
    ELSE \/ HoldsIgnoringCase(entry.userInput, ret.arg)
         \/ HoldsIgnoringCase(entry.aiResponse, ret.arg)

\* returned holds the wanted entries of log, each once, in the order of log
IsFilterOf(returned, log) ==
    LET wanted == {k \in 1..Len(log) : Wanted(log[k])}
    IN  /\ Len(returned) = Cardinality(wanted)
        /\ \A k \in wanted :
              returned[Cardinality({j \in wanted : j <= k})] = log[k]

\* the log that the last call found in localStorage
FoundLog == IF ret.found = NoItem THEN << >> ELSE ret.found.value.items

MaxRaces == 2

\* Utils.timeoutPromise(promise of invocation p, ms): the timer is set, and
\* a promise that has settled already settles the race before any timer.
\* A promise is raced once.
TimeoutPromise(p) ==
    /\ Len(races) < MaxRaces
    /\ p \in 1..Len(runs)
    /\ \A k \in 1..Len(races) : races[k].run # p
    /\ races' = Append(races,
          Raced([run |-> p, state |-> "pending", value |-> NoResults,
                 timer |-> "armed", first |-> "none"], p, runs[p]))
    /\ UNCHANGED << profiles, userSettings, localStorage, now, ret, written, refLog,
                    added, calls, runs, systemStatus, alerts, monitorTicks,
                    exchanges, aiHistory, retry >>

\* TimeoutFires that rejects the race whether it has settled or not
TimeoutFiresAndRejects(k) ==
    /\ k \in 1..Len(races)
    /\ races[k].timer = "armed"
    /\ races' = [races EXCEPT ![k].timer = "fired",
                              ![k].state = "rejected",
                              ![k].value = [error |-> "Promise timeout"],
                              ![k].first = IF races[k].first = "none"
                                           THEN "timer" ELSE races[k].first]
    /\ UNCHANGED << profiles, userSettings, localStorage, now, ret, written, refLog,
                    added, calls, runs, systemStatus, alerts, monitorTicks,
                    exchanges, aiHistory, retry >>

\* The timer of race k fires: reject(new Error('Promise timeout')), which
\* settles the race if it is pending and is ignored if it has settled.
\* Nothing is done to the invocation.
TimeoutFires(k) ==
    /\ k \in 1..Len(races)
    /\ races[k].timer = "armed"
    /\ races' = IF races[k].state = "pending"
                THEN [races EXCEPT ![k].timer = "fired",
                                   ![k].state = "rejected",
                                   ![k].value = [error |-> "Promise timeout"],
                                   ![k].first = "timer"]
                ELSE [races EXCEPT ![k].timer = "fired"]
    /\ UNCHANGED << profiles, userSettings, localStorage, now, ret, written, refLog,
                    added, calls, runs, systemStatus, alerts, monitorTicks,
                    exchanges, aiHistory, retry >>

\* the operations raced: one of a type that is nowhere, which runs the four
\* steps of memory_optimization, and one that is rejected when it is called
NextRace ==
    \/ \E operationType \in {"defrag", "constructor"} :
          StartOperation(operationType)
    \/ \E r \in 1..MaxRuns : DelayResolves(r)
    \/ \E p \in 1..MaxRuns : TimeoutPromise(p)
    \/ \E k \in 1..MaxRaces : TimeoutFires(k)

\* every timer that is set fires at some time
SpecRace ==
    /\ Init
    /\ [][NextRace]_vars
    /\ \A r \in 1..MaxRuns : WF_vars(DelayResolves(r))
    /\ \A k \in 1..MaxRaces : WF_vars(TimeoutFires(k))

\* race k was rejected by its timer
TimedOut(k) ==
    /\ k \in 1..Len(races)
    /\ races[k].state = "rejected"
    /\ races[k].value = [error |-> "Promise timeout"]

\* C24: timeoutPromise(p, ms) settles like p when p settles before the timer
\* fires, and rejects with the timeout error when the timer fires first; the
\* rejection does not cancel the operation: its timers can still fire and do
\* until it completes, and its late result leaves the rejection as it is.
C24_RaceAgainstTimer ==
    /\ [](\A k \in 1..Len(races) :
            LET p == runs[races[k].run]
            IN  /\ races[k].first = "none" =>
                      races[k].state = "pending" /\ p.state = "awaiting"
                /\ races[k].first = "promise" =>
                      IF p.state = "resolved"
                      THEN races[k].state = "fulfilled" /\ races[k].value = p.results
                      ELSE /\ p.state = "rejected"
                           /\ races[k].state = "rejected"
                           /\ races[k].value = [error |-> "TypeError"]
                /\ races[k].first = "timer" =>
                      /\ TimedOut(k)
                      /\ p.state # "rejected"
                      /\ p.state = "awaiting" => ENABLED DelayResolves(races[k].run))
    /\ \A k \in 1..MaxRaces :
          TimedOut(k) ~> (TimedOut(k) /\ runs[races[k].run].state = "resolved")

\* C24 witness: a race was rejected by its timer while the operation was
\* pending; the operation has gone on to its last step and resolved, and the
\* race is still rejected with the timeout error.
C24_Witness ==
    \E k \in 1..Len(races) :
        /\ races[k].first = "timer"
        /\ TimedOut(k)
        /\ runs[races[k].run].state = "resolved"
        /\ Len(runs[races[k].run].results.log) = 4

(***************************************************************************)
(* Utils.retryAsync(fn, maxRetries, delayMs)                               *)
(*                                                                         *)
(* The call is [maxRetries, delayMs, i, state, value, attempts, outcomes,  *)
(* waits]: its arguments, the loop variable, where it is (calling: at      *)
(* await fn(); waiting: at await this.delay(...); resolved; rejected), what *)
(* it settled with, and as history the number of calls of fn, how each     *)
(* ended and the delays awaited.  The result or error of the n-th call of  *)
(* fn is tagged n.                                                         *)
(***************************************************************************)
\* maxRetries is at most MaxRetries
MaxRetries == 3

\* retryAsync that waits delayMs after every failed attempt
AttemptSettlesWithConstantDelay(ok) ==
    /\ retry.state = "calling"
    /\ retry' =
          IF ok
          THEN [retry EXCEPT !.state = "resolved",
                             !.value = [result |-> retry.attempts],
                             !.outcomes = Append(@, "returned")]
          ELSE IF retry.i = retry.maxRetries - 1
          THEN [retry EXCEPT !.state = "rejected",
                             !.value = [error |-> retry.attempts],
                             !.outcomes = Append(@, "thrown")]
          ELSE [retry EXCEPT !.state = "waiting",
                             !.outcomes = Append(@, "thrown"),
                             !.waits = Append(@, retry.delayMs)]
    /\ UNCHANGED << profiles, userSettings, localStorage, now, ret, written, refLog,
                    added, calls, runs, systemStatus, alerts, monitorTicks,
                    exchanges, aiHistory, races >>

\* Utils.retryAsync(fn, maxRetries, delayMs) up to its first await: fn is
\* called if the loop is entered at all, else the call returns undefined
CallRetryAsync(maxRetries, delayMs) ==
    /\ Called
    /\ retry.state \in {"none", "resolved", "rejected"}
    /\ retry' = [maxRetries |-> maxRetries, delayMs |-> delayMs, i |-> 0,
                 state |-> IF 0 < maxRetries THEN "calling" ELSE "resolved",
                 value |-> Undefined,
                 attempts |-> IF 0 < maxRetries THEN 1 ELSE 0,
                 outcomes |-> << >>, waits |-> << >>]
    /\ UNCHANGED << profiles, userSettings, localStorage, now, ret, written, refLog,
                    added, runs, systemStatus, alerts, monitorTicks,
                    exchanges, aiHistory, races >>

\* The promise of fn() settles (or fn throws): with a result the call
\* returns it; with an error the call throws it if i === maxRetries - 1 and
\* else awaits this.delay(delayMs * (i + 1)).
AttemptSettles(ok) ==
    /\ retry.state = "calling"
    /\ retry' =
          IF ok
          THEN [retry EXCEPT !.state = "resolved",
                             !.value = [result |-> retry.attempts],
                             !.outcomes = Append(@, "returned")]
          ELSE IF retry.i = retry.maxRetries - 1
          THEN [retry EXCEPT !.state = "rejected",
                             !.value = [error |-> retry.attempts],
                             !.outcomes = Append(@, "thrown")]
          ELSE [retry EXCEPT !.state = "waiting",
                             !.outcomes = Append(@, "thrown"),
                             !.waits = Append(@, retry.delayMs * (retry.i + 1))]
    /\ UNCHANGED << profiles, userSettings, localStorage, now, ret, written, refLog,
                    added, calls, runs, systemStatus, alerts, monitorTicks,
                    exchanges, aiHistory, races >>

\* The delay timer fires: i++, and as i < maxRetries fn is called again; when
\* the loop ends instead the call returns undefined.
RetryDelayElapses ==
    /\ retry.state = "waiting"
    /\ retry' =
          IF retry.i + 1 < retry.maxRetries
          THEN [retry EXCEPT !.i = retry.i + 1, !.state = "calling",
                             !.attempts = retry.attempts + 1]
          ELSE [retry EXCEPT !.i = retry.i + 1, !.state = "resolved",
                             !.value = Undefined]
    /\ UNCHANGED << profiles, userSettings, localStorage, now, ret, written, refLog,
                    added, calls, runs, systemStatus, alerts, monitorTicks,
                    exchanges, aiHistory, races >>

NextRetry ==
    \/ \E maxRetries \in 0..MaxRetries, delayMs \in {0, 500, 1000} :
          CallRetryAsync(maxRetries, delayMs)
    \/ \E ok \in BOOLEAN : AttemptSettles(ok)
    \/ RetryDelayElapses

SpecRetry == Init /\ [][NextRetry]_vars

C28_SelectedProfileIsTheActiveOne ==
    \A p \in ProfileIds : profiles[p] <=> (p = userSettings.selectedProfile)

(***************************************************************************)
(* The monitoring interval after operations and debug calls                *)
(***************************************************************************)
NextTicks ==
    \/ \E status \in MonitoredStatus : MonitoringTick(status)
    \/ runs = << >> /\ RunSystemOperation("memory_optimization")
    \/ \E r \in 1..MaxRuns : DelayResolves(r)
    \/ calls = 0 /\ SimulateHighLoad
    \/ \E snapshot \in Snapshots : calls = 0 /\ SetSystemStatus(snapshot)
    \/ \E v \in BOOLEAN : calls = 0 /\ ToggleSetting("notificationsToggle", v)

SpecTicks == Init /\ [][NextTicks]_vars

\* C29: a monitoring tick evaluates the alerts on the snapshot generated in
\* that tick, whose cpu.usage is within [10, 90], ram.usage within [20, 80]
\* and cpu.temperature within [40, 60]; so a tick emits at most the CPU usage
\* warning, and never the critical RAM alert nor the temperature warning,
\* whatever operation completed or debug call was made before it.
C29_TicksEmitOnlyTheCpuWarning ==
    ret.op = "monitoringTick" =>
        /\ ret.status = systemStatus
        /\ ret.status.cpuUsage \in 10..90
        /\ ret.status.ramUsage \in 20..80
        /\ ret.status.cpuTemperature \in 40..60
        /\ \A k \in 1..Len(Emitted) : Emitted[k] = CpuUsageAlert
        /\ Len(Emitted) <= 1

\* C29 witness: the tick replaced a status over the RAM or the temperature
\* limit, as left by simulateHighLoad, by a console write or by a memory
\* optimization on 1 GB of free memory, and with notifications enabled it
\* has emitted the CPU usage warning alone.
C29_Witness ==
    /\ ret.op = "monitoringTick"
    /\ ret.breachedBefore
    /\ ret.notifications
    /\ \E r \in 1..Len(runs) : runs[r].state = "resolved" /\ runs[r].results.success
    /\ Emitted = << CpuUsageAlert >>

====
